---- MODULE Spec2Model ----
(***************************************************************************)
(* A model of the nexus gateway (rust17/nexus): the three balancer         *)
(* policies, Service, Router, the Proxy's request path and the reload      *)
(* driven by the ConfigWatcher.                                            *)
(*                                                                         *)
(* SpecBal drives one balancer object through its whole public interface   *)
(* (the balancer laws).  Spec drives the gateway: concurrent requests      *)
(* against a Router that is being reloaded.  SpecSeq, SpecRoute, SpecHC,   *)
(* SpecWatch and SpecSplit, further down, drive the Proxy, the route       *)
(* index, the HealthChecker, the ConfigWatcher and the traffic split, each *)
(* on a variable of its own.                                               *)
(*                                                                         *)
(* Go slices are 0-based; TLA+ sequences are 1-based.  An index field of   *)
(* the model keeps the Go value, so servers[index] of the code is          *)
(* servers[index + 1] here.                                                *)
(***************************************************************************)
EXTENDS Integers, Sequences, FiniteSets, TLC

(***************************************************************************)
(* Bounds of the model and the input sets.                                 *)
(***************************************************************************)
MaxServers == 3      \* longest backend list a balancer is grown to
MaxWeight == 2       \* largest configured weight
MaxCalls == 6        \* Next calls logged between two mutations
MaxConn == 3         \* largest active count of a least-connections entry

Addrs == {"a", "b"}

\* the round-robin balancer is driven with a third address as well: the
\* rotation under Remove needs a backend on either side of the cursor
AddrsOf(type) == IF type = "round_robin" THEN Addrs \cup {"c"} ELSE Addrs

\* weights as they appear in a ServerConfig: 0 is an omitted weight, -1 a
\* negative one
CfgWeights == -1 .. MaxWeight

\* math.MaxInt32
MaxInt32 == 2147483647

\* an active count is a Go int of 64 bits, here the two digits hi and lo of
\* the count hi * 2^31 + lo with 0 <= lo <= MaxInt32
Int64(n) == [hi |-> 0, lo |-> n]

Inc(c) ==
    IF c.lo = MaxInt32 THEN [hi |-> c.hi + 1, lo |-> 0]
    ELSE [c EXCEPT !.lo = @ + 1]

Dec(c) ==
    IF c.lo = 0 THEN [hi |-> c.hi - 1, lo |-> MaxInt32]
    ELSE [c EXCEPT !.lo = @ - 1]

Less(a, b) == a.hi < b.hi \/ (a.hi = b.hi /\ a.lo < b.lo)

(***************************************************************************)
(* Balancers.  A balancer value is a record carrying its dynamic type.     *)
(*   round_robin:          servers \in Seq(address), index                 *)
(*   weighted_round_robin: servers \in Seq([Server, Weight]), index,       *)
(*                         current, defaultWeight                          *)
(*   least_connections:    servers \in Seq([Server, ConnCount])            *)
(* A call of Next yields [out, server, idx, b]: out is "ok", "err" (the    *)
(* error return), "panic" (index out of range, nil dereference) or "hang"  *)
(* (the selection loop never returns); b is the balancer afterwards.       *)
(***************************************************************************)
NewRoundRobinBalancer ==
    [type |-> "round_robin", servers |-> <<>>, index |-> 0]

NewWeightedRoundRobinBalancer ==
    [type |-> "weighted_round_robin", servers |-> <<>>, index |-> 0,
     current |-> 0, defaultWeight |-> 1]

NewLeastConnectionsBalancer ==
    [type |-> "least_connections", servers |-> <<>>]

NewBalancer(balancerType) ==
    CASE balancerType = "round_robin" -> NewRoundRobinBalancer
      [] balancerType = "least_connections" -> NewLeastConnectionsBalancer
      [] balancerType = "weighted_round_robin" -> NewWeightedRoundRobinBalancer
      [] OTHER -> NewRoundRobinBalancer

\* Balancer.Type(): the policy tag of the balancer
BalancerType(b) == b.type

Result(out, server, idx, b) ==
    [out |-> out, server |-> server, idx |-> idx, b |-> b]

RemoveAt(s, i) == SubSeq(s, 1, i - 1) \o SubSeq(s, i + 1, Len(s))

---------------------------------------------------------------------------
(* round robin *)

RoundRobinNextStuck(b) ==
    IF Len(b.servers) = 0 THEN Result("err", "", -1, b)
    ELSE IF b.index >= Len(b.servers) THEN Result("panic", "", -1, b)
    ELSE Result("ok", b.servers[b.index + 1], b.index, b)

RoundRobinNext(b) ==
    IF Len(b.servers) = 0 THEN Result("err", "", -1, b)
    ELSE IF b.index >= Len(b.servers) THEN Result("panic", "", -1, b)
    ELSE Result("ok", b.servers[b.index + 1], b.index,
                [b EXCEPT !.index = (b.index + 1) % Len(b.servers)])

RoundRobinAdd(b, server) ==
    [b EXCEPT !.servers = Append(b.servers, server)]

\* Remove without the check of the index against the shortened list
RoundRobinRemoveNoWrap(b, server) ==
    IF \E i \in 1 .. Len(b.servers) : b.servers[i] = server
    THEN LET i == CHOOSE k \in 1 .. Len(b.servers) :
                      /\ b.servers[k] = server
                      /\ \A j \in 1 .. k - 1 : b.servers[j] # server
         IN  [b EXCEPT !.servers = RemoveAt(b.servers, i)]
    ELSE b

RoundRobinRemove(b, server) ==
    IF \E i \in 1 .. Len(b.servers) : b.servers[i] = server
    THEN LET i == CHOOSE k \in 1 .. Len(b.servers) :
                      /\ b.servers[k] = server
                      /\ \A j \in 1 .. k - 1 : b.servers[j] # server
             rest == RemoveAt(b.servers, i)
         IN  [b EXCEPT !.servers = rest,
                       !.index = IF b.index >= Len(rest) THEN 0 ELSE b.index]
    ELSE b

RoundRobinUpdateServers(b, servers) ==
    [b EXCEPT !.servers = [i \in 1 .. Len(servers) |-> servers[i].Address],
              !.index = 0]

---------------------------------------------------------------------------
(* weighted round robin *)

\* a weight stored as it was configured
GetDefaultWeightAsGiven(b, weight) == weight

GetDefaultWeight(b, weight) ==
    IF weight <= 0 THEN b.defaultWeight ELSE weight

\* the for-loop of Next.  After Len(servers) + 1 rounds without a return
\* every entry has been visited with current = 0 and none was selected, so
\* the loop never returns: "hang".
RECURSIVE WeightedLoop(_, _)
WeightedLoop(b, fuel) ==
    IF fuel = 0 THEN Result("hang", "", -1, b)
    ELSE IF b.index >= Len(b.servers) THEN Result("panic", "", -1, b)
    ELSE LET server == b.servers[b.index + 1]
         IN  IF b.current < server.Weight
             THEN Result("ok", server.Server, b.index,
                         [b EXCEPT !.current = b.current + 1])
             ELSE WeightedLoop([b EXCEPT !.current = 0,
                                         !.index = (b.index + 1) % Len(b.servers)],
                               fuel - 1)

WeightedNextOneEach(b) ==
    IF Len(b.servers) = 0 THEN Result("err", "", -1, b)
    ELSE IF b.index >= Len(b.servers) THEN Result("panic", "", -1, b)
    ELSE Result("ok", b.servers[b.index + 1].Server, b.index,
                [b EXCEPT !.index = (b.index + 1) % Len(b.servers)])

WeightedNext(b) ==
    IF Len(b.servers) = 0 THEN Result("err", "", -1, b)
    ELSE WeightedLoop(b, Len(b.servers) + 1)

WeightedAdd(b, server) ==
    [b EXCEPT !.servers =
        Append(b.servers, [Server |-> server, Weight |-> b.defaultWeight])]

WeightedAddWithWeight(b, server, weight) ==
    [b EXCEPT !.servers =
        Append(b.servers,
               [Server |-> server, Weight |-> GetDefaultWeight(b, weight)])]

WeightedRemove(b, server) ==
    IF \E i \in 1 .. Len(b.servers) : b.servers[i].Server = server
    THEN LET i == CHOOSE k \in 1 .. Len(b.servers) :
                      /\ b.servers[k].Server = server
                      /\ \A j \in 1 .. k - 1 : b.servers[j].Server # server
             rest == RemoveAt(b.servers, i)
         IN  [b EXCEPT !.servers = rest,
                       !.index = IF b.index >= Len(rest) THEN 0 ELSE b.index]
    ELSE b

WeightedUpdateServersKeepCursor(b, servers) ==
    [b EXCEPT !.servers =
                  [i \in 1 .. Len(servers) |->
                      [Server |-> servers[i].Address,
                       Weight |-> GetDefaultWeight(b, servers[i].Weight)]]]

WeightedUpdateServers(b, servers) ==
    [b EXCEPT !.servers =
                  [i \in 1 .. Len(servers) |->
                      [Server |-> servers[i].Address,
                       Weight |-> GetDefaultWeight(b, servers[i].Weight)]],
              !.current = 0,
              !.index = 0]

---------------------------------------------------------------------------
(* least connections *)

\* the scan of Next over entries i .. Len(servers): the selected entry (0 is
\* the nil pointer), the smallest count seen so far and the allEqual flag
RECURSIVE LeastScan(_, _, _, _, _)
LeastScan(servers, i, selected, minConnections, allEqual) ==
    IF i > Len(servers)
    THEN [selected |-> selected, allEqual |-> allEqual]
    ELSE LET c == servers[i].ConnCount
             eq == IF c # servers[1].ConnCount THEN FALSE ELSE allEqual
         IN  IF Less(c, minConnections)
             THEN LeastScan(servers, i + 1, i, c, eq)
             ELSE LeastScan(servers, i + 1, selected, minConnections, eq)

LeastPick(servers) ==
    LET scan == LeastScan(servers, 1, 0, Int64(MaxInt32), TRUE)
    IN  IF scan.allEqual THEN 1 ELSE scan.selected

LeastConnectionsNext(b) ==
    IF Len(b.servers) = 0 THEN Result("err", "", -1, b)
    ELSE LET sel == LeastPick(b.servers)
         IN  IF sel = 0 THEN Result("panic", "", -1, b)
             ELSE Result("ok", b.servers[sel].Server, sel - 1,
                         [b EXCEPT !.servers[sel].ConnCount = Inc(@)])

LeastConnectionsAdd(b, server) ==
    [b EXCEPT !.servers =
        Append(b.servers, [Server |-> server, ConnCount |-> Int64(0)])]

LeastConnectionsAddWithConnCount(b, server, connCount) ==
    [b EXCEPT !.servers =
        Append(b.servers, [Server |-> server, ConnCount |-> connCount])]

LeastConnectionsRemove(b, server) ==
    IF \E i \in 1 .. Len(b.servers) : b.servers[i].Server = server
    THEN LET i == CHOOSE k \in 1 .. Len(b.servers) :
                      /\ b.servers[k].Server = server
                      /\ \A j \in 1 .. k - 1 : b.servers[j].Server # server
         IN  [b EXCEPT !.servers = RemoveAt(b.servers, i)]
    ELSE b

LeastConnectionsDone(b, server) ==
    LET hit(k) == b.servers[k].Server = server /\ Less(Int64(0), b.servers[k].ConnCount)
    IN  IF \E i \in 1 .. Len(b.servers) : hit(i)
        THEN LET i == CHOOSE k \in 1 .. Len(b.servers) :
                          hit(k) /\ \A j \in 1 .. k - 1 : ~hit(j)
             IN  [b EXCEPT !.servers[i].ConnCount = Dec(@)]
        ELSE b

\* LeastConnectionsBalancer.UpdateServers: the list is replaced and every
\* active count starts at zero
LeastConnectionsUpdateServers(b, servers) ==
    [b EXCEPT !.servers =
        [i \in 1 .. Len(servers) |->
            [Server |-> servers[i].Address, ConnCount |-> Int64(0)]]]

---------------------------------------------------------------------------
(* the Balancer interface: dispatch on the dynamic type *)

BalancerNext(b) ==
    CASE b.type = "round_robin" -> RoundRobinNext(b)
      [] b.type = "weighted_round_robin" -> WeightedNext(b)
      [] b.type = "least_connections" -> LeastConnectionsNext(b)

BalancerAdd(b, server) ==
    CASE b.type = "round_robin" -> RoundRobinAdd(b, server)
      [] b.type = "weighted_round_robin" -> WeightedAdd(b, server)
      [] b.type = "least_connections" -> LeastConnectionsAdd(b, server)

BalancerRemove(b, server) ==
    CASE b.type = "round_robin" -> RoundRobinRemove(b, server)
      [] b.type = "weighted_round_robin" -> WeightedRemove(b, server)
      [] b.type = "least_connections" -> LeastConnectionsRemove(b, server)

BalancerUpdateServers(b, servers) ==
    CASE b.type = "round_robin" -> RoundRobinUpdateServers(b, servers)
      [] b.type = "weighted_round_robin" -> WeightedUpdateServers(b, servers)
      [] b.type = "least_connections" -> LeastConnectionsUpdateServers(b, servers)

\* the addresses a balancer holds
BackendSet(b) ==
    IF b.type = "round_robin"
    THEN {b.servers[i] : i \in 1 .. Len(b.servers)}
    ELSE {b.servers[i].Server : i \in 1 .. Len(b.servers)}

\* the cursor state of a balancer
Cursor(b) ==
    CASE b.type = "round_robin" -> <<b.index>>
      [] b.type = "weighted_round_robin" -> <<b.index, b.current>>
      [] b.type = "least_connections" ->
             [i \in 1 .. Len(b.servers) |-> b.servers[i].ConnCount]

---------------------------------------------------------------------------
(* service.newBalancer: a balancer of the configured policy, the configured
   servers added one by one *)

RECURSIVE AddAll(_, _, _)
AddAll(b, servers, i) ==
    IF i > Len(servers) THEN b
    ELSE AddAll(IF b.type = "weighted_round_robin"
                THEN WeightedAddWithWeight(b, servers[i].Address, servers[i].Weight)
                ELSE BalancerAdd(b, servers[i].Address),
                servers, i + 1)

newBalancerBare(config) == NewBalancer(config.BalancerType)

newBalancer(config) ==
    AddAll(NewBalancer(config.BalancerType), config.Servers, 1)

---------------------------------------------------------------------------
(***************************************************************************)
(* The route index (radix.go).  A path, a pattern or a host is a sequence  *)
(* of tokens: "/" (in a host ".") separates segment names, "*" and "**"    *)
(* are segments.  "/api/*" is <<"/", "api", "/", "*">>.                    *)
(* A node of the tree is identified by the parts on the way to it from the *)
(* root; the tree is the function from these keys to the nodes.  A pointer *)
(* to a routeInfo that may be nil is a sequence of length at most one.     *)
(***************************************************************************)
RECURSIVE TrimRight(_, _)
TrimRight(s, tok) ==
    IF Len(s) > 0 /\ s[Len(s)] = tok
    THEN TrimRight(SubSeq(s, 1, Len(s) - 1), tok)
    ELSE s

RECURSIVE TrimLeft(_, _)
TrimLeft(s, tok) ==
    IF Len(s) > 0 /\ s[1] = tok THEN TrimLeft(Tail(s), tok) ELSE s

Trim(s, tok) == TrimLeft(TrimRight(s, tok), tok)

HasPrefix(s, prefix) ==
    Len(prefix) <= Len(s) /\ SubSeq(s, 1, Len(prefix)) = prefix

HasSuffix(s, suffix) ==
    Len(suffix) <= Len(s)
      /\ SubSeq(s, Len(s) - Len(suffix) + 1, Len(s)) = suffix

TrimSuffix(s, suffix) ==
    IF HasSuffix(s, suffix) THEN SubSeq(s, 1, Len(s) - Len(suffix)) ELSE s

\* strings.Split(s, "/"): the segments between the separators; the split of
\* the empty string is one empty segment
RECURSIVE SplitFrom(_, _, _, _)
SplitFrom(s, i, cur, acc) ==
    IF i > Len(s) THEN Append(acc, cur)
    ELSE IF s[i] = "/" THEN SplitFrom(s, i + 1, "", Append(acc, cur))
    ELSE SplitFrom(s, i + 1, s[i], acc)

Split(s) == SplitFrom(s, 1, "", <<>>)

newNode ==
    [pattern |-> <<>>, part |-> "", children |-> <<>>, isWild |-> FALSE,
     isEnd |-> FALSE, routeInfos |-> <<>>]

EmptyTree == [k \in {<<>>} |-> newNode]

\* the for-loop of insert over parts[i ..]
RECURSIVE insertWalk(_, _, _, _, _)
insertWalk(tree, parts, i, pattern, route) ==
    IF i > Len(parts) THEN tree
    ELSE LET key == SubSeq(parts, 1, i)
             parent == SubSeq(parts, 1, i - 1)
             matched == \E c \in 1 .. Len(tree[parent].children) :
                            tree[parent].children[c] = parts[i]
             t1 == IF matched THEN tree
                   ELSE [k \in DOMAIN tree \cup {key} |->
                            IF k = key
                            THEN [newNode EXCEPT
                                     !.part = parts[i],
                                     !.isWild = (parts[i] = "*" \/ parts[i] = "**")]
                            ELSE IF k = parent
                            THEN [tree[k] EXCEPT
                                     !.children = Append(@, parts[i])]
                            ELSE tree[k]]
             t2 == IF i = Len(parts)
                   THEN [t1 EXCEPT ![key].pattern = pattern,
                                   ![key].isEnd = TRUE,
                                   ![key].routeInfos = Append(@, route)]
                   ELSE t1
         IN  insertWalk(t2, parts, i + 1, pattern, route)

insert(tree, rawPattern, rawRoute) ==
    LET trimmed == TrimRight(rawPattern, "/")
        pattern == IF trimmed = <<>> THEN <<"/">> ELSE trimmed
        route == [rawRoute EXCEPT !.path = pattern]
    IN  IF pattern = <<"/">>
        THEN [tree EXCEPT ![<<>>].pattern = pattern,
                          ![<<>>].isEnd = TRUE,
                          ![<<>>].routeInfos = Append(@, route)]
        ELSE insertWalk(tree, Split(Trim(pattern, "/")), 1, pattern, route)

RECURSIVE buildFrom(_, _, _)
buildFrom(tree, routes, i) ==
    IF i > Len(routes) THEN tree
    ELSE buildFrom(insert(tree, routes[i].Match.Path,
                          [method |-> routes[i].Match.Method,
                           host |-> routes[i].Match.Host,
                           headers |-> routes[i].Match.Headers,
                           service |-> routes[i].Service,
                           path |-> <<>>,
                           split |-> routes[i].Split]),
                   routes, i + 1)

buildTree(routes) == buildFrom(EmptyTree, routes, 1)

\* regexp.MatchString for the patterns of the model: literal text with an
\* anchor at either end or at both
regexpMatch(pattern, host) ==
    LET body == TrimRight(TrimLeft(pattern, "^"), "$")
        atStart == Len(pattern) > 0 /\ pattern[1] = "^"
        atEnd == Len(pattern) > 0 /\ pattern[Len(pattern)] = "$"
    IN  CASE atStart /\ atEnd -> host = body
          [] atStart -> HasPrefix(host, body)
          [] atEnd -> HasSuffix(host, body)
          [] OTHER -> \E k \in 0 .. Len(host) - Len(body) :
                          SubSeq(host, k + 1, k + Len(body)) = body

matchHost(pattern, host) ==
    IF pattern = host THEN TRUE
    ELSE IF HasPrefix(pattern, <<"*">>) THEN HasSuffix(host, Tail(pattern))
    ELSE IF HasPrefix(pattern, <<"^">>) \/ HasSuffix(pattern, <<"$">>)
    THEN regexpMatch(pattern, host)
    ELSE FALSE

\* req.Header.Get: the value of the header, "" when the request has none
HeaderGet(req, header) ==
    IF header \in DOMAIN req.Header THEN req.Header[header] ELSE ""

matchRouteInfo(info, req) ==
    /\ ~(info.method # "" /\ info.method # req.Method)
    /\ ~(info.host # <<>> /\ ~matchHost(info.host, req.Host))
    /\ \A header \in DOMAIN info.headers :
           HeaderGet(req, header) = info.headers[header]

\* findMatchingRoute on node n with the list `given` (nil is <<>>)
findMatchingRoute(n, req, given) ==
    LET routes == IF Len(given) = 0 THEN n.routeInfos ELSE given
    IN  IF Len(routes) = 1 THEN <<routes[1]>>
        ELSE IF \E i \in 1 .. Len(routes) : matchRouteInfo(routes[i], req)
        THEN <<routes[CHOOSE i \in 1 .. Len(routes) :
                          /\ matchRouteInfo(routes[i], req)
                          /\ \A j \in 1 .. i - 1 : ~matchRouteInfo(routes[j], req)]>>
        ELSE <<>>

\* the walk of searchExactPath: the key of the node reached, or "none"
RECURSIVE exactWalk(_, _, _)
exactWalk(tree, parts, i) ==
    IF i > Len(parts) THEN <<parts>>
    ELSE LET key == SubSeq(parts, 1, i)
         IN  IF key \in DOMAIN tree /\ ~tree[key].isWild
             THEN exactWalk(tree, parts, i + 1)
             ELSE <<>>

searchExactPath(tree, path, req) ==
    LET at == exactWalk(tree, Split(Trim(path, "/")), 1)
    IN  IF at = <<>> THEN <<>>
        ELSE IF tree[at[1]].isEnd
        THEN findMatchingRoute(tree[at[1]], req, <<>>)
        ELSE <<>>

RECURSIVE collectWildcardRoutes(_, _)
RECURSIVE collectChildren(_, _, _)
collectWildcardRoutes(tree, key) ==
    (IF tree[key].isWild /\ tree[key].isEnd THEN tree[key].routeInfos ELSE <<>>)
        \o collectChildren(tree, key, 1)

collectChildren(tree, key, c) ==
    IF c > Len(tree[key].children) THEN <<>>
    ELSE collectWildcardRoutes(tree, Append(key, tree[key].children[c]))
             \o collectChildren(tree, key, c + 1)

\* the for-loop of searchWildcardPath over wildcardRoutes[i ..]
RECURSIVE wildcardLoop(_, _, _, _, _, _, _)
wildcardLoop(tree, path, req, wildcardRoutes, i, bestMatch, bestMatchLength) ==
    IF i > Len(wildcardRoutes) THEN bestMatch
    ELSE LET info == wildcardRoutes[i]
             routePath == info.path
             prefix == TrimSuffix(routePath, <<"/", "*">>)
             prefixParts == Split(Trim(prefix, "/"))
             better == /\ HasSuffix(routePath, <<"/", "*">>)
                       /\ HasPrefix(path, prefix \o <<"/">>)
                       /\ Len(prefixParts) > bestMatchLength
             best1 == IF better THEN <<info>> ELSE bestMatch
             len1 == IF better THEN Len(prefixParts) ELSE bestMatchLength
             best2 == IF routePath = <<"*">>
                      THEN findMatchingRoute(tree[<<>>], req, wildcardRoutes)
                      ELSE best1
         IN  wildcardLoop(tree, path, req, wildcardRoutes, i + 1, best2, len1)

searchWildcardPath(tree, path, req) ==
    wildcardLoop(tree, path, req, collectWildcardRoutes(tree, <<>>), 1, <<>>, 0)

\* search that tries the wildcard routes before the exact path
searchWildcardFirst(tree, req) ==
    LET trimmed == TrimRight(req.Path, "/")
        path == IF trimmed = <<>> THEN <<"/">> ELSE trimmed
    IN  IF path = <<"/">>
        THEN IF tree[<<>>].isEnd
             THEN findMatchingRoute(tree[<<>>], req, <<>>)
             ELSE <<>>
        ELSE LET wildcardMatch == searchWildcardPath(tree, path, req)
             IN  IF wildcardMatch # <<>> THEN wildcardMatch
                 ELSE searchExactPath(tree, path, req)

search(tree, req) ==
    LET trimmed == TrimRight(req.Path, "/")
        path == IF trimmed = <<>> THEN <<"/">> ELSE trimmed
    IN  IF path = <<"/">>
        THEN IF tree[<<>>].isEnd
             THEN findMatchingRoute(tree[<<>>], req, <<>>)
             ELSE <<>>
        ELSE LET exactMatch == searchExactPath(tree, path, req)
             IN  IF exactMatch # <<>> THEN exactMatch
                 ELSE searchWildcardPath(tree, path, req)

\* selectServiceBySplit, given the number drawn by rng.Intn(totalWeight)
RECURSIVE splitTotal(_, _)
splitTotal(split, n) ==
    IF n = 0 THEN 0 ELSE splitTotal(split, n - 1) + split[n].Weight

RECURSIVE splitWalk(_, _, _, _)
splitWalk(split, randomWeight, i, currentWeight) ==
    IF i > Len(split) THEN split[1].Service
    ELSE IF randomWeight < currentWeight + split[i].Weight THEN split[i].Service
    ELSE splitWalk(split, randomWeight, i + 1, currentWeight + split[i].Weight)

\* the numbers drawn from rng.Intn(totalWeight) for this split: the least and
\* the greatest number of every entry's range; none is drawn for a single
\* entry or a zero total
splitDraws(split) ==
    IF Len(split) = 1 \/ splitTotal(split, Len(split)) = 0 THEN {0}
    ELSE {n \in 0 .. splitTotal(split, Len(split)) - 1 :
             \E i \in 1 .. Len(split) :
                 \/ n = splitTotal(split, i - 1)
                 \/ n = splitTotal(split, i) - 1}

\* a walk that stops at the first entry whose cumulative weight reaches the
\* number drawn
selectServiceBySplitInclusive(split, randomWeight) ==
    IF Len(split) = 1 THEN split[1].Service
    ELSE IF splitTotal(split, Len(split)) = 0 THEN split[1].Service
    ELSE splitWalk(split, randomWeight - 1, 1, 0)

selectServiceBySplit(split, randomWeight) ==
    IF Len(split) = 1 THEN split[1].Service
    ELSE IF splitTotal(split, Len(split)) = 0 THEN split[1].Service
    ELSE splitWalk(split, randomWeight, 1, 0)

---------------------------------------------------------------------------
(***************************************************************************)
(* Configuration snapshots and their validation (validate.go).             *)
(***************************************************************************)
MaxReloads == 1      \* polls of the ConfigWatcher that find the file changed
MaxRequests == 2     \* requests in one run, each on its goroutine

Server(address, weight) == [Address |-> address, Weight |-> weight]

ServiceConfig(name, balancerType, servers) ==
    [Name |-> name, BalancerType |-> balancerType, Servers |-> servers]

RouteTo(name, path, service) ==
    [Name |-> name,
     Match |-> [Path |-> path, Method |-> "", Host |-> <<>>, Headers |-> <<>>],
     Service |-> service, Split |-> <<>>]

RouteSplit(name, path, split) ==
    [Name |-> name,
     Match |-> [Path |-> path, Method |-> "", Host |-> <<>>, Headers |-> <<>>],
     Service |-> "", Split |-> split]

Snapshot(services, routes) ==
    [ListenAddr |-> ":8080", LogLevel |-> "info",
     Services |-> services, Routes |-> routes,
     HealthCheck |-> [Interval |-> 10, Timeout |-> 2]]

ApiAny == <<"/", "api", "/", "*">>

\* the contents the configuration file takes in the model
Files ==
    [rr_ab |->
        Snapshot([n \in {"S"} |->
                     ServiceConfig("S", "round_robin",
                                   <<Server("a", 0), Server("b", 0)>>)],
                 <<RouteTo("api", ApiAny, "S")>>),
     rr_bc |->
        Snapshot([n \in {"S"} |->
                     ServiceConfig("S", "round_robin",
                                   <<Server("b", 0), Server("c", 0)>>)],
                 <<RouteTo("api", ApiAny, "S")>>),
     split_c |->
        Snapshot([n \in {"S", "T"} |->
                     IF n = "S"
                     THEN ServiceConfig("S", "weighted_round_robin",
                                        <<Server("c", 2)>>)
                     ELSE ServiceConfig("T", "least_connections",
                                        <<Server("a", 0), Server("b", 0)>>)],
                 <<RouteSplit("api", ApiAny,
                              <<[Service |-> "S", Weight |-> 50],
                                [Service |-> "T", Weight |-> 50]>>)>>),
     split_ac |->
        Snapshot([n \in {"S", "T"} |->
                     IF n = "S"
                     THEN ServiceConfig("S", "weighted_round_robin",
                                        <<Server("a", 1), Server("c", 2)>>)
                     ELSE ServiceConfig("T", "least_connections",
                                        <<Server("b", 0)>>)],
                 <<RouteSplit("api", ApiAny,
                              <<[Service |-> "S", Weight |-> 50],
                                [Service |-> "T", Weight |-> 50]>>)>>),
     rr_other |->
        Snapshot([n \in {"S"} |->
                     ServiceConfig("S", "round_robin",
                                   <<Server("a", 0), Server("b", 0)>>)],
                 <<RouteTo("other", <<"/", "other">>, "S")>>),
     ghost |->
        Snapshot([n \in {"S"} |->
                     ServiceConfig("S", "round_robin", <<Server("a", 0)>>)],
                 <<RouteTo("api", ApiAny, "checkout")>>),
     empty |->
        Snapshot([n \in {"S"} |-> ServiceConfig("S", "round_robin", <<>>)],
                 <<RouteTo("api", ApiAny, "S")>>)]

FileIds == DOMAIN Files

validateListenAddr(addr) == addr # ""

validateLogLevel(level) ==
    level \in {"debug", "info", "warn", "error", "fatal", ""}

validateBalancerType(bType) ==
    bType \in {"round_robin", "weighted_round_robin", "least_connections"}

validateServers(servers, balancerType) ==
    /\ Len(servers) # 0
    /\ \A i \in 1 .. Len(servers) :
           /\ servers[i].Address # ""
           /\ ~(balancerType = "weighted_round_robin" /\ servers[i].Weight <= 0)

validateHealthCheck(interval, timeout) ==
    interval > 0 /\ timeout > 0 /\ timeout < interval

validateRoute(route) ==
    /\ route.Name # ""
    /\ ~(/\ route.Match.Path = <<>>
         /\ route.Match.Method = ""
         /\ route.Match.Host = <<>>
         /\ DOMAIN route.Match.Headers = {})
    /\ ~(route.Service = "" /\ Len(route.Split) = 0)
    /\ Len(route.Split) > 0 =>
           /\ \A i \in 1 .. Len(route.Split) :
                  route.Split[i].Service # "" /\ route.Split[i].Weight > 0
           /\ splitTotal(route.Split, Len(route.Split)) = 100

\* Validate that accepts every file
ValidateAccept(c) == TRUE

Validate(c) ==
    /\ validateListenAddr(c.ListenAddr)
    /\ validateLogLevel(c.LogLevel)
    /\ \A name \in DOMAIN c.Services :
           /\ c.Services[name].Name # ""
           /\ validateBalancerType(c.Services[name].BalancerType)
           /\ validateServers(c.Services[name].Servers,
                              c.Services[name].BalancerType)
    /\ \A i \in 1 .. Len(c.Routes) : validateRoute(c.Routes[i])
    /\ validateHealthCheck(c.HealthCheck.Interval, c.HealthCheck.Timeout)

\* the addresses a ServiceConfig declares
Declared(conf) == {conf.Servers[i].Address : i \in 1 .. Len(conf.Servers)}

\* the service names a routeInfo can resolve to
Targets(info) ==
    IF Len(info.split) > 0
    THEN {info.split[i].Service : i \in 1 .. Len(info.split)}
    ELSE {info.service}

---------------------------------------------------------------------------
(***************************************************************************)
(* The state of the gateway.                                               *)
(*   bals       the balancer objects, by address (position in the heap)    *)
(*   svcs       the serviceImpl objects: name, the balancer field (an      *)
(*              interface value: the type word tab and the data word),     *)
(*              the interface value an assignment to the field is storing, *)
(*              and the ServiceConfig the service was last given           *)
(*   rServices  router.services: name -> service object                    *)
(*   tree       router.tree                                                *)
(*   rmu        router.mu: the writer flag and the readers holding it      *)
(*   reqs       the requests in the Proxy, one per handler goroutine       *)
(*   upd        the ConfigWatcher callback running Router.Update           *)
(*   reloads    how many reloads have started                              *)
(*   treeCfg, tableCfg   the snapshot the tree was built from and the one  *)
(*              the service table reflects ("mixed" while it is rebuilt)   *)
(*   lastUpdate what the last Service.Update or NewService of a reload did *)
(***************************************************************************)
VARIABLES bals, svcs, rServices, tree, rmu, reqs, upd, reloads,
          treeCfg, tableCfg, lastUpdate

gwVars == <<bals, svcs, rServices, tree, rmu, reqs, upd, reloads,
            treeCfg, tableCfg, lastUpdate>>

Workers == 1 .. MaxRequests

Request(path) ==
    [Path |-> path, Method |-> "GET", Host |-> <<"gw">>, Header |-> <<>>]

Requests == {Request(<<"/", "api", "/", "x">>), Request(<<"/", "other">>)}

\* the result of a call whose interface value was torn: not an address of
\* any configuration
Garbage == "?"

IdleReq ==
    [pc |-> "idle", req |-> Request(<<>>), matches |-> 0, ri |-> <<>>,
     name |-> "",
     svc1 |-> 0, bal1 |-> 0, strategy |-> "", count |-> 0,
     svc |-> 0, view |-> [tab |-> "", data |-> 0], allowed |-> {},
     out |-> "", result |-> "", mTree |-> "", mTable |-> ""]

\* old, oldRoutes and heap: the service table, the snapshot of the tree and
\* the number of Service objects ever built, as Router.Update found them;
\* returned: the last Router.Update has returned
IdleUpd ==
    [pc |-> "idle", cfg |-> "", todo |-> {}, svc |-> 0,
     old |-> <<>>, oldRoutes |-> "", heap |-> 0, returned |-> FALSE]

NoUpdate ==
    [kind |-> "none", config |-> ServiceConfig("", "", <<>>), oldPolicy |-> "",
     svc |-> 0, balBefore |-> 0, balAfter |-> 0, before |-> <<>>,
     after |-> <<>>, result |-> [type |-> "none"]]

\* NewService for every configured service; the heap holds service k and
\* its balancer at position k
RECURSIVE NameSeq(_)
NameSeq(names) ==
    IF names = {} THEN <<>>
    ELSE LET n == CHOOSE x \in names : TRUE
         IN  <<n>> \o NameSeq(names \ {n})

NewService(config, balancerAt) ==
    [name |-> config.Name,
     balancer |-> [tab |-> BalancerType(newBalancer(config)), data |-> balancerAt],
     storing |-> <<>>,
     cfg |-> config,
     prevCfg |-> config]

\* NewRouter(cfg.Routes, cfg.Services)
NewRouter(id) ==
    LET c == Files[id]
        order == NameSeq(DOMAIN c.Services)
    IN  [bals |-> [k \in 1 .. Len(order) |-> newBalancer(c.Services[order[k]])],
         svcs |-> [k \in 1 .. Len(order) |-> NewService(c.Services[order[k]], k)],
         rServices |-> [n \in DOMAIN c.Services |->
                           CHOOSE k \in 1 .. Len(order) : order[k] = n],
         tree |-> buildTree(c.Routes)]

GatewayStarted(id) ==
    LET r == NewRouter(id)
    IN  /\ bals = r.bals
        /\ svcs = r.svcs
        /\ rServices = r.rServices
        /\ tree = r.tree
        /\ rmu = [writer |-> FALSE, readers |-> {}]
        /\ reqs = [w \in Workers |-> IdleReq]
        /\ upd = IdleUpd
        /\ reloads = 0
        /\ treeCfg = id
        /\ tableCfg = id
        /\ lastUpdate = NoUpdate

---------------------------------------------------------------------------
(***************************************************************************)
(* The state of the single-component specifications.                       *)
(*   px   a Proxy over a Router, called by one caller at a time: the       *)
(*        router (bals, svcs, rServices, tree as above), p.errorHandler,   *)
(*        the response to the last request and the last call made          *)
(*   rt   a route index and what search returned for the last request      *)
(*   hc   a HealthChecker with its loop, its probes and the service whose   *)
(*        backends it probes                                                *)
(*   cw   a ConfigWatcher with the file it polls and what its callbacks     *)
(*        have applied                                                      *)
(*   sp   a split list and what selectServiceBySplit returned for it        *)
(***************************************************************************)
VARIABLES px, rt, hc, cw, sp

NoResponse ==
    [outcome |-> "none", routed |-> FALSE, nextErr |-> FALSE, status |-> 0,
     body |-> "", target |-> "", handlerCalls |-> 0]

NoCall == [op |-> "none", cfg |-> "", repeat |-> FALSE, changed |-> FALSE]

NoProxy ==
    [bals |-> <<>>, svcs |-> <<>>, rServices |-> <<>>, tree |-> EmptyTree,
     errorHandler |-> "nil", resp |-> NoResponse, last |-> NoCall]

NoRoutes == [routes |-> <<>>, req |-> Request(<<>>), found |-> <<>>, calls |-> 0]

NoHealth == [loop |-> "none"]

NoWatch == [pc |-> "none"]

NoSplit == [split |-> <<>>, draw |-> -1, name |-> "", calls |-> 0]

---------------------------------------------------------------------------
(***************************************************************************)
(* SpecBal: one balancer object driven through its interface.              *)
(*   bal       the balancer                                                *)
(*   hist      the results of the Next calls since the last mutation       *)
(*   start     the cursor (index, current) the balancer had when hist      *)
(*             was last emptied                                            *)
(*   twin      while tracking: a balancer built by newBalancer from the    *)
(*             list of the last UpdateServers, given the same Next calls   *)
(*   twinHist  the results of the twin's Next calls                        *)
(*   tracking  only Next calls have happened since the last UpdateServers  *)
(*   dirty     the cursor was not at rest when that UpdateServers came     *)
(*   wrapped   the last call was a Remove that left the cursor index at or *)
(*             past the end of the shortened list before its own check     *)
(***************************************************************************)
VARIABLES bal, hist, start, twin, twinHist, tracking, dirty, wrapped

balVars == <<bal, hist, start, twin, twinHist, tracking, dirty, wrapped>>

NoTwin == [type |-> "none"]

\* a ServerConfig list: distinct addresses, any order, any configured weight
\* (only the weighted policy reads the weight)
ServerConfigs == [Address : Addrs, Weight : CfgWeights]

ServerLists ==
    {<<>>}
    \cup {<<x>> : x \in ServerConfigs}
    \cup {<<x, y>> : x, y \in ServerConfigs}

UpdateLists == {l \in ServerLists :
                   \A i, j \in 1 .. Len(l) : i # j => l[i].Address # l[j].Address}

StartOf(b) ==
    CASE b.type = "round_robin" -> [index |-> b.index, current |-> 0]
      [] b.type = "weighted_round_robin" ->
             [index |-> b.index, current |-> b.current]
      [] b.type = "least_connections" -> [index |-> 0, current |-> 0]

LogEntry(r) == [out |-> r.out, server |-> r.server, idx |-> r.idx]

\* a mutation other than UpdateServers
Mutated(b) ==
    /\ bal' = b
    /\ hist' = <<>>
    /\ start' = StartOf(b)
    /\ twin' = NoTwin
    /\ twinHist' = <<>>
    /\ tracking' = FALSE
    /\ dirty' = FALSE
    /\ wrapped' = (/\ bal.type # "least_connections"
                   /\ Len(b.servers) < Len(bal.servers)
                   /\ bal.index >= Len(b.servers))

BalInit ==
    /\ bal \in {NewBalancer(t) : t \in {"round_robin", "weighted_round_robin",
                                        "least_connections"}}
    /\ hist = <<>>
    /\ start = [index |-> 0, current |-> 0]
    /\ twin = NoTwin
    /\ twinHist = <<>>
    /\ tracking = FALSE
    /\ dirty = FALSE
    /\ wrapped = FALSE
    /\ GatewayStarted("rr_ab")
    /\ px = NoProxy
    /\ rt = NoRoutes
    /\ hc = NoHealth
    /\ cw = NoWatch
    /\ sp = NoSplit

\* the active counts of the runs: the small ones, and the ones at the start
\* value of minConnections in Next and above it (an int has 64 bits)
Counts ==
    {Int64(n) : n \in 0 .. MaxConn} \cup {Int64(MaxInt32), Inc(Int64(MaxInt32))}

BalNext ==
    /\ Len(hist) < MaxCalls
    /\ LET r == BalancerNext(bal)
       IN  /\ bal.type = "least_connections" /\ r.out = "ok"
                => r.b.servers[r.idx + 1].ConnCount \in Counts
           /\ bal' = r.b
           /\ hist' = Append(hist, LogEntry(r))
           /\ IF tracking
              THEN LET t == BalancerNext(twin)
                   IN  /\ twin' = t.b
                       /\ twinHist' = Append(twinHist, LogEntry(t))
              ELSE UNCHANGED <<twin, twinHist>>
    /\ wrapped' = FALSE
    /\ UNCHANGED <<start, tracking, dirty>>

BalAdd ==
    /\ Len(bal.servers) < MaxServers
    /\ \E a \in AddrsOf(bal.type) : Mutated(BalancerAdd(bal, a))

BalAddWithWeight ==
    /\ bal.type = "weighted_round_robin"
    /\ Len(bal.servers) < MaxServers
    /\ \E a \in Addrs, w \in CfgWeights : Mutated(WeightedAddWithWeight(bal, a, w))

BalAddWithConnCount ==
    /\ bal.type = "least_connections"
    /\ Len(bal.servers) < MaxServers
    /\ \E a \in Addrs, c \in Counts :
           Mutated(LeastConnectionsAddWithConnCount(bal, a, c))

BalRemove ==
    \E a \in AddrsOf(bal.type) : Mutated(BalancerRemove(bal, a))

BalDone ==
    /\ bal.type = "least_connections"
    /\ \E a \in Addrs :
           LET b == LeastConnectionsDone(bal, a)
           IN  /\ \A i \in 1 .. Len(b.servers) : b.servers[i].ConnCount \in Counts
               /\ Mutated(b)

BalUpdateServers ==
    \E l \in UpdateLists :
        /\ bal.type # "weighted_round_robin" =>
               \A i \in 1 .. Len(l) : l[i].Weight = 0
        /\ bal' = BalancerUpdateServers(bal, l)
        /\ hist' = <<>>
        /\ start' = StartOf(bal')
        /\ twin' = newBalancer([BalancerType |-> bal.type, Servers |-> l])
        /\ twinHist' = <<>>
        /\ tracking' = TRUE
        /\ dirty' = (Cursor(bal) # Cursor(NewBalancer(bal.type))
                     /\ (bal.type = "least_connections"
                           => \E i \in 1 .. Len(bal.servers) :
                                  Less(Int64(0), bal.servers[i].ConnCount)))
        /\ wrapped' = FALSE

NextBal ==
    \/ BalNext /\ UNCHANGED <<gwVars, px, rt, hc, cw, sp>>
    \/ BalAdd /\ UNCHANGED <<gwVars, px, rt, hc, cw, sp>>
    \/ BalAddWithWeight /\ UNCHANGED <<gwVars, px, rt, hc, cw, sp>>
    \/ BalAddWithConnCount /\ UNCHANGED <<gwVars, px, rt, hc, cw, sp>>
    \/ BalRemove /\ UNCHANGED <<gwVars, px, rt, hc, cw, sp>>
    \/ BalDone /\ UNCHANGED <<gwVars, px, rt, hc, cw, sp>>
    \/ BalUpdateServers /\ UNCHANGED <<gwVars, px, rt, hc, cw, sp>>

vars == <<balVars, gwVars, px, rt, hc, cw, sp>>

SpecBal == BalInit /\ [][NextBal]_vars

---------------------------------------------------------------------------
(***************************************************************************)
(* The balancer laws, checked under SpecBal.  Between two mutations the    *)
(* backend list does not change, so bal.servers is the list every call     *)
(* logged in hist was made on.                                             *)
(***************************************************************************)

\* the calls s .. e of hist that returned list entry i (0-based)
Hits(s, e, i) == {t \in s .. e : hist[t].idx = i}

\* C5: round robin over n >= 1 backends: consecutive calls walk the list
\* cyclically in list order, and every window of k*n consecutive calls
\* returns each entry exactly k times.
C5_RoundRobinFairness ==
    (bal.type = "round_robin" /\ Len(bal.servers) >= 1) =>
        LET n == Len(bal.servers)
        IN  /\ \A t \in 1 .. Len(hist) :
                   /\ hist[t].out = "ok"
                   /\ hist[t].idx \in 0 .. n - 1
                   /\ hist[t].server = bal.servers[hist[t].idx + 1]
            /\ \A t \in 1 .. Len(hist) - 1 :
                   hist[t + 1].idx = (hist[t].idx + 1) % n
            /\ \A s \in 1 .. Len(hist), k \in 1 .. MaxCalls :
                   s + k * n - 1 <= Len(hist) =>
                       \A i \in 0 .. n - 1 :
                           Cardinality(Hits(s, s + k * n - 1, i)) = k

\* two full rounds over three backends have been served
C5_Witness ==
    /\ bal.type = "round_robin"
    /\ Len(bal.servers) = 3
    /\ Len(hist) = 6

RECURSIVE SumWeights(_, _)
SumWeights(servers, n) ==
    IF n = 0 THEN 0 ELSE SumWeights(servers, n - 1) + servers[n].Weight

\* the list entry (0-based) whose burst covers position p of a cycle
BurstIndex(servers, p) ==
    (CHOOSE i \in 1 .. Len(servers) :
         SumWeights(servers, i - 1) <= p /\ p < SumWeights(servers, i)) - 1

\* C6: weighted round robin counted from a fresh or reset cursor: in every
\* cycle of (w_1 + ... + w_n) calls entry i is returned exactly w_i times, as
\* one contiguous run, the runs in list order.
C6_WeightedFairness ==
    (/\ bal.type = "weighted_round_robin"
     /\ Len(bal.servers) >= 1
     /\ start = [index |-> 0, current |-> 0]) =>
        LET total == SumWeights(bal.servers, Len(bal.servers))
            full == (Len(hist) \div total) * total
        IN  /\ total >= Len(bal.servers)
            /\ \A t \in 1 .. full :
                   /\ hist[t].out = "ok"
                   /\ hist[t].idx = BurstIndex(bal.servers, (t - 1) % total)
                   /\ hist[t].server = bal.servers[hist[t].idx + 1].Server
            /\ \A c \in 1 .. (Len(hist) \div total), i \in 1 .. Len(bal.servers) :
                   Cardinality(Hits((c - 1) * total + 1, c * total, i - 1))
                       = bal.servers[i].Weight

\* weights 2:1, two full cycles served from a cursor at rest
C6_Witness ==
    /\ bal.type = "weighted_round_robin"
    /\ Len(bal.servers) = 2
    /\ bal.servers[1].Weight = 2
    /\ bal.servers[2].Weight = 1
    /\ start = [index |-> 0, current |-> 0]
    /\ Len(hist) = 6

\* the first entry, in list order, among those with the lowest active count
FirstLowest(servers) ==
    CHOOSE i \in 1 .. Len(servers) :
        /\ \A j \in 1 .. Len(servers) :
               ~Less(servers[j].ConnCount, servers[i].ConnCount)
        /\ \A j \in 1 .. i - 1 : Less(servers[i].ConnCount, servers[j].ConnCount)

\* C7: Next on a least-connections balancer returns the first entry among
\* those with the lowest active count and adds one to that entry's count,
\* leaving every other entry as it was.
C7_LeastConnectionsPick ==
    [][(/\ bal.type = "least_connections"
        /\ Len(bal.servers) >= 1
        /\ Len(hist') = Len(hist) + 1) =>
           LET i == FirstLowest(bal.servers)
               r == hist'[Len(hist')]
           IN  /\ r.out = "ok"
               /\ r.idx = i - 1
               /\ r.server = bal.servers[i].Server
               /\ bal' = [bal EXCEPT !.servers[i].ConnCount = Inc(@)]]_vars

\* C8: for every policy Next returns the error exactly when the backend list
\* is empty, and otherwise an address of the current backend set.
C8_ErrorIffEmpty ==
    \A t \in 1 .. Len(hist) :
        /\ hist[t].out = "err" <=> Len(bal.servers) = 0
        /\ Len(bal.servers) > 0 =>
               hist[t].out = "ok" /\ hist[t].server \in BackendSet(bal)

\* C9: after UpdateServers(L) the backend list is L and the Next calls that
\* follow return what a balancer freshly built from L returns.
C9_UpdateServersResets ==
    tracking =>
        /\ hist = twinHist
        /\ BackendSet(bal) = BackendSet(twin)
        /\ Len(bal.servers) = Len(twin.servers)

\* a weighted balancer with a cursor in mid-burst was given a new list and
\* has served two calls since
C9_Witness ==
    /\ tracking
    /\ dirty
    /\ bal.type = "weighted_round_robin"
    /\ Len(bal.servers) = 2
    /\ Len(hist) >= 2


---------------------------------------------------------------------------
(***************************************************************************)
(* Spec: the gateway.  Requests run through the Proxy (tracingMiddleware,  *)
(* then handleRequest) on their own goroutines while the ConfigWatcher     *)
(* goroutine reloads the configuration through Router.Update.              *)
(***************************************************************************)

\* sync.RWMutex: RLock waits while a writer holds the lock, Lock waits for
\* the writer and for every reader
RLockableAlways(mu) == TRUE

RLockable(mu) == ~mu.writer

Lockable(mu) == ~mu.writer /\ mu.readers = {}

\* Service.Update keeps the balancer when the configured policy is the one
\* the balancer has
SamePolicyNever(config, b) == FALSE

SamePolicy(config, b) == config.BalancerType = BalancerType(b)

\* what a load of s.balancer made without s.mu can see: the field, or, while
\* an assignment to the field is storing its two words, any mix of the old and
\* the new type word and data word
Views(s) ==
    IF s.storing = <<>> THEN {s.balancer}
    ELSE {[tab |-> t, data |-> d] :
             t \in {s.balancer.tab, s.storing[1].tab},
             d \in {s.balancer.data, s.storing[1].data}}

\* the view pairs the type word with the object it was stored with
Whole(view) == view.tab = BalancerType(bals[view.data])

\* a method called through a torn interface value runs the code of one type
\* on the memory of another: it crashes or returns whatever it finds there
TornOutcomes == {"panic", "ok"}

getBalancerStrategy(view) ==
    IF view.tab \in {"round_robin", "weighted_round_robin", "least_connections"}
    THEN view.tab
    ELSE "unknown"

\* getBackendCount: len(b.GetServers()); -1 stands for a length read from
\* memory of another type
getBackendCount(view) ==
    IF Whole(view) THEN {Len(bals[view.data].servers)}
    ELSE {Len(bals[view.data].servers), -1}

SetReq(w, r) == reqs' = [reqs EXCEPT ![w] = r]

\* the files the gateway is started on
StartFiles == {"rr_ab", "split_c"}

Init == \E id \in StartFiles :
    /\ Validate(Files[id])
    /\ GatewayStarted(id)
    /\ bal = NewRoundRobinBalancer
    /\ hist = <<>>
    /\ start = [index |-> 0, current |-> 0]
    /\ twin = NoTwin
    /\ twinHist = <<>>
    /\ tracking = FALSE
    /\ dirty = FALSE
    /\ wrapped = FALSE
    /\ px = NoProxy
    /\ rt = NoRoutes
    /\ hc = NoHealth
    /\ cw = NoWatch
    /\ sp = NoSplit

\* a request arrives: Proxy.ServeHTTP on a goroutine of its own
ServeHTTP(w) ==
    /\ reqs[w].pc = "idle"
    /\ \A v \in 1 .. w - 1 : reqs[v].pc # "idle"
    /\ \E req \in Requests :
           SetReq(w, [IdleReq EXCEPT !.pc = "t_lock", !.req = req])
    /\ UNCHANGED <<bals, svcs, rServices, tree, rmu, upd, reloads, treeCfg,
                   tableCfg, lastUpdate>>

\* Router.Match, r.mu.RLock(): in tracingMiddleware (t_) and again in
\* handleRequest (h_)
MatchRLock(w) ==
    /\ reqs[w].pc \in {"t_lock", "h_lock"}
    /\ RLockable(rmu)
    /\ rmu' = [rmu EXCEPT !.readers = @ \cup {w}]
    /\ SetReq(w, [reqs[w] EXCEPT
                     !.pc = IF @ = "t_lock" THEN "t_search" ELSE "h_search"])
    /\ UNCHANGED <<bals, svcs, rServices, tree, upd, reloads, treeCfg,
                   tableCfg, lastUpdate>>

\* Router.Match, routeInfo := r.tree.search(req); a nil routeInfo returns nil
MatchSearch(w) ==
    /\ reqs[w].pc \in {"t_search", "h_search"}
    /\ LET first == reqs[w].pc = "t_search"
           routeInfo == search(tree, reqs[w].req)
       IN  IF routeInfo = <<>>
           THEN /\ rmu' = [rmu EXCEPT !.readers = @ \ {w}]
                /\ SetReq(w, IF first
                             THEN [reqs[w] EXCEPT !.pc = "t_attrs", !.ri = <<>>,
                                      !.matches = 1,
                                      !.name = "", !.svc1 = 0,
                                      !.mTree = treeCfg, !.mTable = treeCfg]
                             ELSE [reqs[w] EXCEPT !.pc = "h_load", !.ri = <<>>,
                                      !.matches = 2,
                                      !.name = "", !.svc = 0,
                                      !.mTree = treeCfg, !.mTable = treeCfg])
           ELSE /\ rmu' = rmu
                /\ SetReq(w, [reqs[w] EXCEPT
                                 !.pc = IF first THEN "t_pick" ELSE "h_pick",
                                 !.ri = routeInfo,
                                 !.mTree = treeCfg])
    /\ UNCHANGED <<bals, svcs, rServices, tree, upd, reloads, treeCfg,
                   tableCfg, lastUpdate>>

\* Router.Match, r.services[...] of the route's service or of the split draw,
\* and the deferred RUnlock; a name missing from the map gives nil
MatchPick(w) ==
    /\ reqs[w].pc \in {"t_pick", "h_pick"}
    /\ LET first == reqs[w].pc = "t_pick"
           info == reqs[w].ri[1]
       IN  \E randomWeight \in (IF Len(info.split) > 0
                                THEN splitDraws(info.split) ELSE {0}) :
               LET name == IF Len(info.split) > 0
                           THEN selectServiceBySplit(info.split, randomWeight)
                           ELSE info.service
                   found == IF name \in DOMAIN rServices
                            THEN rServices[name] ELSE 0
               IN  SetReq(w, IF first
                             THEN [reqs[w] EXCEPT !.pc = "t_attrs",
                                      !.matches = 1,
                                      !.name = name, !.svc1 = found,
                                      !.mTable = tableCfg]
                             ELSE [reqs[w] EXCEPT !.pc = "h_load",
                                      !.matches = 2,
                                      !.name = name, !.svc = found,
                                      !.mTable = tableCfg])
    /\ rmu' = [rmu EXCEPT !.readers = @ \ {w}]
    /\ UNCHANGED <<bals, svcs, rServices, tree, upd, reloads, treeCfg,
                   tableCfg, lastUpdate>>

\* tracingMiddleware: service.Balancer() read twice for the span attributes;
\* a nil service panics
TraceAttrs(w) ==
    /\ reqs[w].pc = "t_attrs"
    /\ IF reqs[w].svc1 = 0
       THEN SetReq(w, [reqs[w] EXCEPT !.pc = "done", !.out = "panic"])
       ELSE \E v1, v2 \in Views(svcs[reqs[w].svc1]) :
            \E n \in getBackendCount(v2) :
                SetReq(w, [reqs[w] EXCEPT !.pc = "h_lock",
                              !.strategy = getBalancerStrategy(v1),
                              !.bal1 = v1.data,
                              !.count = n])
    /\ UNCHANGED <<bals, svcs, rServices, tree, rmu, upd, reloads,
                   treeCfg, tableCfg, lastUpdate>>

\* Service.NextServer, the load of s.balancer (s.mu is not taken); a nil
\* service panics.  allowed collects the backend sets the service is
\* configured with while the call runs.
NextServerLoad(w) ==
    /\ reqs[w].pc = "h_load"
    /\ IF reqs[w].svc = 0
       THEN SetReq(w, [reqs[w] EXCEPT !.pc = "done", !.out = "panic"])
       ELSE LET s == svcs[reqs[w].svc]
            IN  \E v \in Views(s) :
                    SetReq(w, [reqs[w] EXCEPT !.pc = "h_call", !.view = v,
                                  !.allowed =
                                      IF s.storing = <<>> THEN Declared(s.cfg)
                                      ELSE Declared(s.cfg) \cup Declared(s.prevCfg)])
    /\ UNCHANGED <<bals, svcs, rServices, tree, rmu, upd, reloads,
                   treeCfg, tableCfg, lastUpdate>>

\* Service.NextServer, the call of Next through the loaded interface value
NextServerCall(w) ==
    /\ reqs[w].pc = "h_call"
    /\ LET v == reqs[w].view
       IN  IF Whole(v)
           THEN LET r == BalancerNext(bals[v.data])
                IN  /\ bals' = [bals EXCEPT ![v.data] = r.b]
                    /\ SetReq(w, [reqs[w] EXCEPT !.pc = "done", !.out = r.out,
                                     !.result = r.server])
           ELSE /\ bals' = bals
                /\ \E o \in TornOutcomes :
                       SetReq(w, [reqs[w] EXCEPT !.pc = "done", !.out = o,
                                     !.result = IF o = "ok" THEN Garbage ELSE ""])
    /\ UNCHANGED <<svcs, rServices, tree, rmu, upd, reloads, treeCfg,
                   tableCfg, lastUpdate>>

\* ConfigWatcher.checkForUpdate finds the file changed: a file that fails
\* Validate is logged and dropped, another one is handed to the callback,
\* which calls Router.Update
checkForUpdate ==
    /\ upd.pc = "idle"
    /\ reloads < MaxReloads
    /\ reloads' = reloads + 1
    /\ \E id \in FileIds :
           upd' = IF Validate(Files[id])
                  THEN [IdleUpd EXCEPT !.pc = "lock", !.cfg = id]
                  ELSE IdleUpd
    /\ UNCHANGED <<bals, svcs, rServices, tree, rmu, reqs, treeCfg,
                   tableCfg, lastUpdate>>

\* Router.Update, r.mu.Lock()
UpdateLock ==
    /\ upd.pc = "lock"
    /\ Lockable(rmu)
    /\ rmu' = [rmu EXCEPT !.writer = TRUE]
    /\ upd' = [upd EXCEPT !.pc = "services",
                          !.todo = DOMAIN Files[upd.cfg].Services,
                          !.old = rServices,
                          !.oldRoutes = treeCfg,
                          !.heap = Len(svcs)]
    /\ UNCHANGED <<bals, svcs, rServices, tree, reqs, reloads, treeCfg,
                   tableCfg, lastUpdate>>

\* a request inside NextServer of service id may now get a backend of conf
Widen(id, conf) ==
    reqs' = [w \in Workers |->
                IF reqs[w].pc = "h_call" /\ reqs[w].svc = id
                THEN [reqs[w] EXCEPT !.allowed = @ \cup Declared(conf)]
                ELSE reqs[w]]

\* Router.Update, one turn of the loop over the configured services (a map:
\* any order).  An existing service gets Service.Update: UpdateServers on the
\* balancer it has, under the balancer's own lock, when the policy is the
\* same, else a new balancer whose assignment to s.balancer begins here.  A
\* new name gets NewService.
UpdateService ==
    /\ upd.pc = "services"
    /\ \E name \in upd.todo :
           LET conf == Files[upd.cfg].Services[name]
           IN  /\ tableCfg' = "mixed"
               /\ IF name \in DOMAIN rServices
                  THEN LET id == rServices[name]
                           s == svcs[id]
                           b == bals[s.balancer.data]
                       IN  /\ rServices' = rServices
                           /\ Widen(id, conf)
                           /\ IF SamePolicy(conf, b)
                              THEN LET nb == BalancerUpdateServers(b, conf.Servers)
                                   IN  /\ bals' = [bals EXCEPT ![s.balancer.data] = nb]
                                       /\ svcs' = [svcs EXCEPT ![id] =
                                              [s EXCEPT !.name = conf.Name,
                                                        !.cfg = conf,
                                                        !.prevCfg = s.cfg]]
                                       /\ upd' = [upd EXCEPT !.todo = @ \ {name}]
                                       /\ lastUpdate' =
                                              [kind |-> "inplace", config |-> conf,
                                               oldPolicy |-> BalancerType(b),
                                               balBefore |-> s.balancer.data,
                                               balAfter |-> s.balancer.data,
                                               before |-> Cursor(b),
                                               after |-> Cursor(nb),
                                               svc |-> id,
                                               result |-> nb]
                              ELSE LET nb == newBalancer(conf)
                                       at == Len(bals) + 1
                                   IN  /\ bals' = Append(bals, nb)
                                       /\ svcs' = [svcs EXCEPT ![id] =
                                              [s EXCEPT
                                                 !.storing =
                                                     <<[tab |-> BalancerType(nb),
                                                        data |-> at]>>,
                                                 !.cfg = conf,
                                                 !.prevCfg = s.cfg]]
                                       /\ upd' = [upd EXCEPT !.pc = "store",
                                                             !.todo = @ \ {name},
                                                             !.svc = id]
                                       /\ lastUpdate' =
                                              [kind |-> "replace", config |-> conf,
                                               oldPolicy |-> BalancerType(b),
                                               balBefore |-> s.balancer.data,
                                               balAfter |-> at,
                                               before |-> Cursor(b),
                                               after |-> Cursor(nb),
                                               svc |-> id,
                                               result |-> nb]
                  ELSE LET at == Len(bals) + 1
                           id == Len(svcs) + 1
                       IN  /\ bals' = Append(bals, newBalancer(conf))
                           /\ svcs' = Append(svcs, NewService(conf, at))
                           /\ rServices' =
                                  [n \in DOMAIN rServices \cup {name} |->
                                      IF n = name THEN id ELSE rServices[n]]
                           /\ reqs' = reqs
                           /\ upd' = [upd EXCEPT !.todo = @ \ {name}]
                           /\ lastUpdate' =
                                  [NoUpdate EXCEPT !.kind = "new", !.config = conf,
                                                   !.svc = id,
                                                   !.balAfter = at,
                                                   !.result = newBalancer(conf)]
    /\ UNCHANGED <<tree, rmu, reloads, treeCfg>>

\* Service.Update, the assignment s.balancer = newBalancer(config) completes,
\* then s.name = config.Name
UpdateStore ==
    /\ upd.pc = "store"
    /\ LET s == svcs[upd.svc]
       IN  svcs' = [svcs EXCEPT ![upd.svc] =
                       [s EXCEPT !.balancer = s.storing[1],
                                 !.storing = <<>>,
                                 !.name = s.cfg.Name]]
    /\ upd' = [upd EXCEPT !.pc = "services", !.svc = 0]
    /\ UNCHANGED <<bals, rServices, tree, rmu, reqs, reloads, treeCfg,
                   tableCfg, lastUpdate>>

\* Router.Update without its delete loop
UpdateCleanupKeep ==
    /\ upd.pc = "services"
    /\ upd.todo = {}
    /\ rServices' = rServices
    /\ tableCfg' = upd.cfg
    /\ upd' = [upd EXCEPT !.pc = "tree"]
    /\ UNCHANGED <<bals, svcs, tree, rmu, reqs, reloads, treeCfg,
                   lastUpdate>>

\* Router.Update, the loop that deletes the services the configuration no
\* longer has
UpdateCleanup ==
    /\ upd.pc = "services"
    /\ upd.todo = {}
    /\ rServices' = [n \in DOMAIN rServices \cap DOMAIN Files[upd.cfg].Services |->
                        rServices[n]]
    /\ tableCfg' = upd.cfg
    /\ upd' = [upd EXCEPT !.pc = "tree"]
    /\ UNCHANGED <<bals, svcs, tree, rmu, reqs, reloads, treeCfg,
                   lastUpdate>>

\* Router.Update, r.tree = buildTree(routes)
UpdateTree ==
    /\ upd.pc = "tree"
    /\ tree' = buildTree(Files[upd.cfg].Routes)
    /\ treeCfg' = upd.cfg
    /\ upd' = [upd EXCEPT !.pc = "unlock"]
    /\ UNCHANGED <<bals, svcs, rServices, rmu, reqs, reloads, tableCfg,
                   lastUpdate>>

\* Router.Update returns: the deferred r.mu.Unlock()
UpdateUnlock ==
    /\ upd.pc = "unlock"
    /\ rmu' = [rmu EXCEPT !.writer = FALSE]
    /\ upd' = [upd EXCEPT !.pc = "idle", !.returned = TRUE]
    /\ UNCHANGED <<bals, svcs, rServices, tree, reqs, reloads, treeCfg,
                   tableCfg, lastUpdate>>

Next ==
    \/ \E w \in Workers : ServeHTTP(w) /\ UNCHANGED <<balVars, px, rt, hc, cw, sp>>
    \/ \E w \in Workers : MatchRLock(w) /\ UNCHANGED <<balVars, px, rt, hc, cw, sp>>
    \/ \E w \in Workers : MatchSearch(w) /\ UNCHANGED <<balVars, px, rt, hc, cw, sp>>
    \/ \E w \in Workers : MatchPick(w) /\ UNCHANGED <<balVars, px, rt, hc, cw, sp>>
    \/ \E w \in Workers : TraceAttrs(w) /\ UNCHANGED <<balVars, px, rt, hc, cw, sp>>
    \/ \E w \in Workers : NextServerLoad(w) /\ UNCHANGED <<balVars, px, rt, hc, cw, sp>>
    \/ \E w \in Workers : NextServerCall(w) /\ UNCHANGED <<balVars, px, rt, hc, cw, sp>>
    \/ checkForUpdate /\ UNCHANGED <<balVars, px, rt, hc, cw, sp>>
    \/ UpdateLock /\ UNCHANGED <<balVars, px, rt, hc, cw, sp>>
    \/ UpdateService /\ UNCHANGED <<balVars, px, rt, hc, cw, sp>>
    \/ UpdateStore /\ UNCHANGED <<balVars, px, rt, hc, cw, sp>>
    \/ UpdateCleanup /\ UNCHANGED <<balVars, px, rt, hc, cw, sp>>
    \/ UpdateTree /\ UNCHANGED <<balVars, px, rt, hc, cw, sp>>
    \/ UpdateUnlock /\ UNCHANGED <<balVars, px, rt, hc, cw, sp>>

Spec == Init /\ [][Next]_vars

---------------------------------------------------------------------------
(***************************************************************************)
(* The gateway laws, checked under Spec.                                   *)
(***************************************************************************)

\* C1: every address a request gets from NextServer of a service belongs to
\* a backend set the service was configured with while the call ran: the set
\* before the reload or the set after it
C1_OnlyOldOrNew ==
    \A w \in Workers :
        reqs[w].pc = "done" /\ reqs[w].out = "ok"
            => reqs[w].result \in reqs[w].allowed

\* request w has a result of Router.Match in hand
Resolved(w) == reqs[w].matches >= 1 /\ reqs[w].pc \notin {"h_search", "h_pick"}

\* the service the last Match of request w returned (0 is nil)
Got(w) == IF reqs[w].matches = 1 THEN reqs[w].svc1 ELSE reqs[w].svc

\* C2: Match and Update are mutually atomic: what a Match returned is what
\* one configuration snapshot gives, route and service table both from it
C2_MatchAtomic ==
    \A w \in Workers :
        Resolved(w) =>
            /\ reqs[w].mTree \in FileIds
            /\ reqs[w].mTable = reqs[w].mTree
            /\ LET c == Files[reqs[w].mTree]
                   info == search(buildTree(c.Routes), reqs[w].req)
               IN  /\ reqs[w].ri = info
                   /\ info = <<>> => Got(w) = 0
                   /\ info # <<>> =>
                          /\ reqs[w].name \in Targets(info[1])
                          /\ Got(w) # 0 <=> reqs[w].name \in DOMAIN c.Services
                          /\ Got(w) # 0 => svcs[Got(w)].name = reqs[w].name

\* two requests matched a route, one before a reload and one after it
C2_Witness ==
    \E v, w \in Workers :
        /\ Resolved(v) /\ reqs[v].ri # <<>>
        /\ Resolved(w) /\ reqs[w].ri # <<>>
        /\ reqs[v].mTree # reqs[w].mTree

\* C3: whenever requests can read the router, every route of the tree names
\* services of the service table only, and a request whose route matched did
\* not get a nil service
C3_TargetsResolve ==
    /\ ~rmu.writer =>
           \A key \in DOMAIN tree :
               \A i \in 1 .. Len(tree[key].routeInfos) :
                   Targets(tree[key].routeInfos[i]) \subseteq DOMAIN rServices
    /\ \A w \in Workers : Resolved(w) /\ reqs[w].ri # <<>> => Got(w) # 0

\* C4: the service and the balancer that picked the backend of a request are
\* the ones the request saw when it was matched
C4_OneChain ==
    \A w \in Workers :
        reqs[w].pc = "done" /\ reqs[w].matches = 2 /\ reqs[w].svc # 0
            => /\ reqs[w].svc = reqs[w].svc1
               /\ reqs[w].view.data = reqs[w].bal1
               /\ reqs[w].view.tab = reqs[w].strategy

\* the last update was of a service that kept its name and its policy
KeptService ==
    /\ lastUpdate.kind \in {"inplace", "replace"}
    /\ lastUpdate.oldPolicy = lastUpdate.config.BalancerType

\* C10 as stated: a kept service keeps its balancer instance and the cursor
\* state of the balancer is after the reload what it was before
C10_CursorKept ==
    KeptService =>
        /\ lastUpdate.balAfter = lastUpdate.balBefore
        /\ lastUpdate.after = lastUpdate.before

\* C10, amended: a kept service keeps its balancer instance, and the cursor
\* state of the balancer is after the reload that of a balancer newly made
\* from the reloaded configuration (index 0, inner counter 0, every count 0)
C10_CursorReset ==
    KeptService =>
        /\ lastUpdate.balAfter = lastUpdate.balBefore
        /\ lastUpdate.after = Cursor(newBalancer(lastUpdate.config))

\* a kept service whose balancer had moved its cursor was reloaded
C10_Witness ==
    /\ KeptService
    /\ lastUpdate.kind = "inplace"
    /\ lastUpdate.before # lastUpdate.after

\* the addresses a balancer holds, in list order
Addresses(b) ==
    [i \in 1 .. Len(b.servers) |->
        IF b.type = "round_robin" THEN b.servers[i] ELSE b.servers[i].Server]

\* the addresses a ServiceConfig lists, in list order
Listed(conf) == [i \in 1 .. Len(conf.Servers) |-> conf.Servers[i].Address]

\* C11: Service.Update of an existing service: with the policy unchanged the
\* service keeps its balancer object, which now holds the configured list;
\* with the policy changed the service gets a new balancer object of the
\* configured policy holding the configured list (with its weights)
C11_ServiceUpdate ==
    lastUpdate.kind \in {"inplace", "replace"} =>
        /\ Addresses(lastUpdate.result) = Listed(lastUpdate.config)
        /\ BalancerType(lastUpdate.result) = lastUpdate.config.BalancerType
        /\ lastUpdate.result.type = "weighted_round_robin" =>
               \A i \in 1 .. Len(lastUpdate.config.Servers) :
                   lastUpdate.result.servers[i].Weight =
                       lastUpdate.config.Servers[i].Weight
        /\ IF lastUpdate.oldPolicy = lastUpdate.config.BalancerType
           THEN lastUpdate.balAfter = lastUpdate.balBefore
           ELSE lastUpdate.balAfter # lastUpdate.balBefore
        /\ upd.pc # "store" =>
               /\ svcs[lastUpdate.svc].balancer.data = lastUpdate.balAfter
               /\ svcs[lastUpdate.svc].balancer.tab = lastUpdate.config.BalancerType
               /\ BalancerType(bals[lastUpdate.balAfter]) =
                      lastUpdate.config.BalancerType
               /\ Addresses(bals[lastUpdate.balAfter]) = Listed(lastUpdate.config)

\* a reload that changed the policy of a service has stored the new balancer
C11_Witness ==
    /\ lastUpdate.kind = "replace"
    /\ upd.pc = "idle"
    /\ svcs[lastUpdate.svc].balancer.data = lastUpdate.balAfter
    /\ Len(lastUpdate.result.servers) >= 1

\* the routeInfo buildTree stores for a route
InfoOf(route) ==
    [path |-> <<>>, method |-> route.Match.Method,
     host |-> route.Match.Host, headers |-> route.Match.Headers,
     service |-> route.Service, split |-> route.Split]

\* C12: once Router.Update has returned, the service table holds exactly the
\* configured names, a name that was there before is the same Service object,
\* a new name is a Service object built by this update, and every request is
\* matched against the new routes only
C12_UpdateReplaces ==
    upd.returned =>
        LET c == Files[upd.cfg]
        IN  /\ DOMAIN rServices = DOMAIN c.Services
            /\ \A n \in DOMAIN rServices :
                   /\ IF n \in DOMAIN upd.old
                      THEN rServices[n] = upd.old[n]
                      ELSE rServices[n] > upd.heap
                   /\ svcs[rServices[n]].name = c.Services[n].Name
                   /\ svcs[rServices[n]].cfg = c.Services[n]
            /\ \A req \in Requests :
                   LET got == search(tree, req)
                   IN  /\ got = search(buildTree(c.Routes), req)
                       /\ got # <<>> =>
                              \E i \in 1 .. Len(c.Routes) :
                                  [got[1] EXCEPT !.path = <<>>] = InfoOf(c.Routes[i])

\* an update has returned that dropped a service, and one that added a
\* service, and one after which a request the old routes matched finds nothing
C12_Witness ==
    /\ upd.returned
    /\ \/ DOMAIN upd.old \ DOMAIN rServices # {}
       \/ DOMAIN rServices \ DOMAIN upd.old # {}
    /\ DOMAIN upd.old \cap DOMAIN rServices # {}

C12_WitnessRoute ==
    /\ upd.returned
    /\ \E req \in Requests :
           /\ search(buildTree(Files[upd.oldRoutes].Routes), req) # <<>>
           /\ search(tree, req) = <<>>

---------------------------------------------------------------------------
(***************************************************************************)
(* SpecSeq: a Proxy over a Router built by NewRouter from any snapshot     *)
(* (the components take what they are given; only main and the watcher     *)
(* call Validate first), driven by one caller at a time: every call runs   *)
(* to its end before the next one starts.                                  *)
(***************************************************************************)
MaxObjects == 3      \* balancer objects built in one run

\* Router.Match; 0 stands for a nil Service
Match(r, req, randomWeight) ==
    LET routeInfo == search(r.tree, req)
    IN  IF routeInfo = <<>> THEN 0
        ELSE LET name == IF Len(routeInfo[1].split) > 0
                         THEN selectServiceBySplit(routeInfo[1].split, randomWeight)
                         ELSE routeInfo[1].service
             IN  IF name \in DOMAIN r.rServices THEN r.rServices[name] ELSE 0

\* the numbers rng.Intn can give Match for this request
MatchDraws(r, req) ==
    LET routeInfo == search(r.tree, req)
    IN  IF routeInfo # <<>> /\ Len(routeInfo[1].split) > 0
        THEN splitDraws(routeInfo[1].split)
        ELSE {0}

\* Service.Update that builds a new balancer whatever the policy
ServiceUpdateRebuild(r, id, config) ==
    [r EXCEPT !.bals = Append(@, newBalancer(config)),
              !.svcs[id] =
                  [r.svcs[id] EXCEPT
                      !.balancer = [tab |-> BalancerType(newBalancer(config)),
                                    data |-> Len(r.bals) + 1],
                      !.name = config.Name,
                      !.cfg = config,
                      !.prevCfg = config]]

\* Service.Update
ServiceUpdate(r, id, config) ==
    LET s == r.svcs[id]
        b == r.bals[s.balancer.data]
    IN  IF SamePolicy(config, b)
        THEN [r EXCEPT !.bals[s.balancer.data] =
                           BalancerUpdateServers(b, config.Servers),
                       !.svcs[id] = [s EXCEPT !.name = config.Name,
                                              !.cfg = config,
                                              !.prevCfg = config]]
        ELSE [r EXCEPT !.bals = Append(@, newBalancer(config)),
                       !.svcs[id] =
                           [s EXCEPT !.balancer =
                                         [tab |-> BalancerType(newBalancer(config)),
                                          data |-> Len(r.bals) + 1],
                                     !.name = config.Name,
                                     !.cfg = config,
                                     !.prevCfg = config]]

\* Router.Update, the loop over the configured services
RECURSIVE UpdateLoop(_, _, _)
UpdateLoop(r, services, order) ==
    IF order = <<>> THEN r
    ELSE LET name == Head(order)
             conf == services[name]
             r1 == IF name \in DOMAIN r.rServices
                   THEN ServiceUpdate(r, r.rServices[name], conf)
                   ELSE [r EXCEPT
                            !.bals = Append(@, newBalancer(conf)),
                            !.svcs = Append(@, NewService(conf, Len(r.bals) + 1)),
                            !.rServices =
                                [n \in DOMAIN r.rServices \cup {name} |->
                                    IF n = name THEN Len(r.svcs) + 1
                                    ELSE r.rServices[n]]]
         IN  UpdateLoop(r1, services, Tail(order))

\* Router.Update
RouterUpdate(r, routes, services) ==
    LET r1 == UpdateLoop(r, services, NameSeq(DOMAIN services))
    IN  [r1 EXCEPT !.rServices = [n \in DOMAIN r1.rServices \cap DOMAIN services |->
                                     r1.rServices[n]],
                   !.tree = buildTree(routes)]

\* Proxy.handleError with the built-in answer only
handleErrorDefault(errorHandler) ==
    [status |-> 503, body |-> "Service unavailable"]

\* Proxy.handleError: the handler given to SetErrorHandler (the one of the
\* tests writes 502 and "custom error"), else http.Error with 503
handleError(errorHandler) ==
    IF errorHandler # "nil"
    THEN [status |-> 502, body |-> "custom error"]
    ELSE [status |-> 503, body |-> "Service unavailable"]

\* the router part of px: what Match and NextServer can observe
Router(p) ==
    [bals |-> p.bals, svcs |-> p.svcs, rServices |-> p.rServices, tree |-> p.tree]

\* a method call on a nil Service panics: the request gets no response from
\* the Proxy
Panicked(p, routed) ==
    [bals |-> p.bals,
     resp |-> [NoResponse EXCEPT !.outcome = "panic", !.routed = routed]]

\* handleRequest after service.NextServer returned r from the balancer at
\* `at`: handleError on an error, else the request is forwarded to the target
Answered(p, routed, at, r, e) ==
    CASE r.out = "err" ->
             [bals |-> [p.bals EXCEPT ![at] = r.b],
              resp |-> [outcome |-> "handled", routed |-> routed,
                        nextErr |-> TRUE, status |-> e.status,
                        body |-> e.body, target |-> "", handlerCalls |-> 1]]
      [] r.out = "panic" ->
             [bals |-> [p.bals EXCEPT ![at] = r.b],
              resp |-> [NoResponse EXCEPT !.outcome = "panic", !.routed = routed]]
      [] OTHER ->
             [bals |-> [p.bals EXCEPT ![at] = r.b],
              resp |-> [NoResponse EXCEPT !.outcome = "forwarded",
                                          !.routed = routed,
                                          !.target = r.server]]

\* Proxy.handleRequest on the Service that Match returned
handleRequest(p, routed, service) ==
    IF service = 0 THEN Panicked(p, routed)
    ELSE Answered(p, routed, p.svcs[service].balancer.data,
                  BalancerNext(p.bals[p.svcs[service].balancer.data]),
                  handleError(p.errorHandler))

\* Proxy.ServeHTTP: tracingMiddleware (Match, service.Balancer() for the span
\* attributes), then handleRequest (Match, NextServer, handleError or
\* forward)
ProxyServeHTTP(p, req, d1, d2) ==
    IF Match(p, req, d1) = 0
    THEN Panicked(p, search(p.tree, req) # <<>>)
    ELSE handleRequest(p, search(p.tree, req) # <<>>, Match(p, req, d2))

SeqInit ==
    /\ \E id \in FileIds :
           LET r == NewRouter(id)
           IN  px = [bals |-> r.bals, svcs |-> r.svcs, rServices |-> r.rServices,
                     tree |-> r.tree, errorHandler |-> "nil",
                     resp |-> NoResponse, last |-> NoCall]
    /\ rt = NoRoutes
    /\ hc = NoHealth
    /\ cw = NoWatch
    /\ sp = NoSplit
    /\ GatewayStarted("rr_ab")
    /\ bal = NewRoundRobinBalancer
    /\ hist = <<>>
    /\ start = [index |-> 0, current |-> 0]
    /\ twin = NoTwin
    /\ twinHist = <<>>
    /\ tracking = FALSE
    /\ dirty = FALSE
    /\ wrapped = FALSE

\* the caller sends a request
SeqServeHTTP ==
    \E req \in Requests :
    \E d1, d2 \in MatchDraws(px, req) :
    \E o \in {ProxyServeHTTP(px, req, d1, d2)} :
        /\ \A k \in 1 .. Len(o.bals) :
               o.bals[k].type = "least_connections" =>
                   \A i \in 1 .. Len(o.bals[k].servers) :
                       o.bals[k].servers[i].ConnCount \in Counts
        /\ px' = [px EXCEPT !.bals = o.bals,
                            !.resp = o.resp,
                            !.last = [NoCall EXCEPT !.op = "serve"]]

\* the caller installs or clears the error handler
SeqSetErrorHandler ==
    \E handler \in {"nil", "custom"} :
        px' = [px EXCEPT !.errorHandler = handler,
                         !.last = [NoCall EXCEPT !.op = "set"]]

\* the caller applies a snapshot
SeqUpdate ==
    \E id \in FileIds :
        LET p == RouterUpdate(px, Files[id].Routes, Files[id].Services)
            repeat == px.last.op = "update" /\ px.last.cfg = id
        IN  /\ Len(p.bals) <= MaxObjects
            /\ px' = [p EXCEPT !.last =
                         [op |-> "update", cfg |-> id, repeat |-> repeat,
                          changed |-> IF repeat THEN px.last.changed
                                      ELSE Router(p) # Router(px)]]

NextSeq ==
    \/ SeqServeHTTP /\ UNCHANGED <<balVars, gwVars, rt, hc, cw, sp>>
    \/ SeqSetErrorHandler /\ UNCHANGED <<balVars, gwVars, rt, hc, cw, sp>>
    \/ SeqUpdate /\ UNCHANGED <<balVars, gwVars, rt, hc, cw, sp>>

SpecSeq == SeqInit /\ [][NextSeq]_vars

\* C13: a Router.Update that repeats the snapshot of the Router.Update just
\* before it changes nothing that Match or NextServer can observe: the
\* Service objects, their balancers, the service table and the tree are what
\* they were
C13_UpdateTwice ==
    [][(px'.last.op = "update" /\ px'.last.repeat) => Router(px') = Router(px)]_vars

\* a snapshot was applied twice in a row, and its first application changed
\* the policy of a service or the service table
C13_Witness ==
    /\ px.last.op = "update"
    /\ px.last.repeat
    /\ px.last.changed
    /\ Len(px.bals) > 2

\* C14: a request no route matches is answered with 503 through the error
\* handler and is not forwarded
C14_NoRoute503 ==
    (px.last.op = "serve" /\ ~px.resp.routed) =>
        /\ px.resp.outcome = "handled"
        /\ px.resp.handlerCalls = 1
        /\ px.resp.target = ""
        /\ px.errorHandler = "nil" => px.resp.status = 503

\* C15: when NextServer of the matched service returns an error the request
\* is not forwarded and the error handler runs once: 503 and
\* "Service unavailable" without a custom handler, the custom handler's
\* answer with one
C15_NextServerError ==
    (px.last.op = "serve" /\ px.resp.nextErr) =>
        /\ px.resp.outcome = "handled"
        /\ px.resp.target = ""
        /\ px.resp.handlerCalls = 1
        /\ IF px.errorHandler = "nil"
           THEN px.resp.status = 503 /\ px.resp.body = "Service unavailable"
           ELSE px.resp.status = 502 /\ px.resp.body = "custom error"

\* a request to a service without backends was answered by the custom handler
C15_Witness ==
    /\ px.last.op = "serve"
    /\ px.resp.nextErr
    /\ px.errorHandler = "custom"
    /\ px.resp.status = 502

---------------------------------------------------------------------------
(***************************************************************************)
(* SpecRoute: the route index built from a route list, searched by one     *)
(* caller.  The route at position i of the list targets the service        *)
(* RouteNames[i], so the result of a search tells which route was chosen.  *)
(***************************************************************************)
MaxRoutes == 2       \* routes in one list

ApiUsers == <<"/", "api", "/", "users">>
RootAny == <<"/", "*">>
ApiProductsAny == <<"/", "api", "/", "products", "/", "*">>
ApiAnyCheckout == <<"/", "api", "/", "*", "/", "checkout">>
ApiV1Deep == <<"/", "api", "/", "v1", "/", "**">>
ApiV1Any == <<"/", "api", "/", "v1", "/", "*">>

CatchAll == <<"*">>

RoutePatterns ==
    {ApiUsers, ApiAny, RootAny, ApiProductsAny, ApiAnyCheckout, ApiV1Deep,
     CatchAll}

RouteMethods == {"", "POST"}

RouteNames == <<"r1", "r2", "r3">>

\* the route lists of 1 .. MaxRoutes routes
RouteLists ==
    UNION {{[i \in 1 .. n |->
                [RouteTo(RouteNames[i], f[i][1], RouteNames[i])
                    EXCEPT !.Match.Method = f[i][2]]] :
               f \in [1 .. n -> RoutePatterns \X RouteMethods]} :
           n \in 1 .. MaxRoutes}

RoutePaths ==
    {ApiUsers,
     <<"/", "api", "/", "x">>,
     <<"/", "api", "/", "products", "/", "x">>,
     <<"/", "api", "/", "x", "/", "checkout">>,
     <<"/", "api", "/", "checkout">>,
     <<"/", "api", "/", "x", "/", "y", "/", "checkout">>,
     <<"/", "api", "/", "v1", "/", "x">>,
     <<"/", "other">>}

RouteRequests ==
    {[Request(path) EXCEPT !.Method = m] : path \in RoutePaths, m \in {"GET", "POST"}}

RouteInit ==
    /\ \E routes \in RouteLists : rt = [NoRoutes EXCEPT !.routes = routes]
    /\ px = NoProxy
    /\ hc = NoHealth
    /\ cw = NoWatch
    /\ sp = NoSplit
    /\ GatewayStarted("rr_ab")
    /\ bal = NewRoundRobinBalancer
    /\ hist = <<>>
    /\ start = [index |-> 0, current |-> 0]
    /\ twin = NoTwin
    /\ twinHist = <<>>
    /\ tracking = FALSE
    /\ dirty = FALSE
    /\ wrapped = FALSE

\* NewRouter or Router.Update with a route list: r.tree = buildTree(routes)
RouteUpdate ==
    \E routes \in RouteLists : rt' = [NoRoutes EXCEPT !.routes = routes]

\* Router.Match: r.tree.search(req)
RouteSearch ==
    \E req \in RouteRequests :
        rt' = [rt EXCEPT !.req = req,
                         !.found = search(buildTree(rt.routes), req),
                         !.calls = 1]

NextRoute ==
    \/ RouteUpdate /\ UNCHANGED <<balVars, gwVars, px, hc, cw, sp>>
    \/ RouteSearch /\ UNCHANGED <<balVars, gwVars, px, hc, cw, sp>>

SpecRoute == RouteInit /\ [][NextRoute]_vars

\* what the routing rules say about a pattern and a path
IsLiteral(pattern) == \A k \in 1 .. Len(pattern) : pattern[k] \notin {"*", "**"}

IsTrailing(pattern) ==
    /\ HasSuffix(pattern, <<"/", "*">>)
    /\ IsLiteral(SubSeq(pattern, 1, Len(pattern) - 2))

LiteralPrefix(pattern) == SubSeq(pattern, 1, Len(pattern) - 2)

\* a trailing-wildcard pattern covers the paths that extend its literal
\* prefix by at least one segment
CoversPath(pattern, path) ==
    /\ IsTrailing(pattern)
    /\ HasPrefix(path, LiteralPrefix(pattern) \o <<"/">>)
    /\ Len(path) > Len(LiteralPrefix(pattern)) + 1

Satisfies(route, req) == route.Match.Method = "" \/ route.Match.Method = req.Method

RouteIds == 1 .. Len(rt.routes)

C17_LongestPrefix ==
    LET covering == {i \in RouteIds : CoversPath(rt.routes[i].Match.Path, rt.req.Path)}
    IN  (/\ rt.calls = 1
         /\ \A i \in RouteIds : rt.routes[i].Match.Method = ""
         /\ \A i \in RouteIds : rt.routes[i].Match.Path # rt.req.Path
         /\ \A i \in RouteIds : rt.routes[i].Match.Path # ApiAnyCheckout
         /\ Cardinality(covering) >= 2)
        => /\ rt.found # <<>>
           /\ \E i \in covering :
                  /\ rt.found[1].service = rt.routes[i].Service
                  /\ \A j \in covering :
                         Len(LiteralPrefix(rt.routes[j].Match.Path))
                             <= Len(LiteralPrefix(rt.routes[i].Match.Path))

\* C18: the route a search returns is one whose method, host and headers
\* the request satisfies
C18_ConditionsChecked ==
    (rt.calls = 1 /\ rt.found # <<>>) => matchRouteInfo(rt.found[1], rt.req)

\* C19: the only route is /api/*/checkout: /api/x/checkout is matched,
\* /api/checkout and /api/x/y/checkout are not
C19_SingleSegment ==
    (/\ rt.calls = 1
     /\ Len(rt.routes) = 1
     /\ rt.routes[1].Match.Path = ApiAnyCheckout
     /\ rt.routes[1].Match.Method = "")
    => /\ rt.req.Path = <<"/", "api", "/", "x", "/", "checkout">> => rt.found # <<>>
       /\ rt.req.Path \in {<<"/", "api", "/", "checkout">>,
                           <<"/", "api", "/", "x", "/", "y", "/", "checkout">>}
              => rt.found = <<>>

\* C20: the only route is /api/v1/**: a request is matched exactly when the
\* route /api/v1/* in its place matches it
C20_DoubleStar ==
    (/\ rt.calls = 1
     /\ Len(rt.routes) = 1
     /\ rt.routes[1].Match.Path = ApiV1Deep)
    => (rt.found # <<>>
           <=> search(buildTree(<<[rt.routes[1] EXCEPT !.Match.Path = ApiV1Any]>>),
                      rt.req) # <<>>)

---------------------------------------------------------------------------
(***************************************************************************)
(* The cursor of the two rotating policies, checked under SpecBal.  Every  *)
(* method of a balancer runs under the balancer's mutex, so an             *)
(* interleaving of calls is a sequence of them.                            *)
(***************************************************************************)

\* C30: after any sequence of Next, Add, Remove and UpdateServers on a
\* round-robin or weighted round-robin balancer whose list is not empty, the
\* cursor index is at least 0 and less than the length of the list.
C30_CursorInRange ==
    /\ bal.type \in {"round_robin", "weighted_round_robin"}
    /\ Len(bal.servers) > 0
    => /\ 0 <= bal.index
       /\ bal.index < Len(bal.servers)

\* a Remove has just shortened a list under a cursor that stood at its end,
\* and servers are left
C30_Witness ==
    /\ wrapped
    /\ bal.type \in {"round_robin", "weighted_round_robin"}
    /\ Len(bal.servers) > 0

---------------------------------------------------------------------------
(***************************************************************************)
(* The active counts of the least-connections balancers, checked under     *)
(* SpecSeq.  The caller of SpecSeq sends one request at a time and         *)
(* ServeHTTP returns when the response is complete, so between two steps   *)
(* no request is in flight.                                                *)
(***************************************************************************)

\* C26: the forwarder calls Done(address) once when the response of a
\* request routed by a least-connections balancer completes, so the active
\* count of each backend equals the number of its requests in flight: with
\* no request in flight every active count is zero.
C26_DoneOnCompletion ==
    \A k \in 1 .. Len(px.bals) :
        px.bals[k].type = "least_connections" =>
            \A i \in 1 .. Len(px.bals[k].servers) :
                px.bals[k].servers[i].ConnCount = Int64(0)

---------------------------------------------------------------------------
(***************************************************************************)
(* SpecHC: the HealthChecker as the main program runs it, next to the      *)
(* service whose backends it probes.                                       *)
(*   hc.h        the HealthChecker object: servers (absent, healthy or     *)
(*               unhealthy per address), interval, timeout, stopChan       *)
(*   hc.loop     where the goroutine of Start stands: not started, at its  *)
(*               select, blocked in it, in checkAllServers, or returned    *)
(*   hc.ticker   the ticker of Start: its period and what its channel      *)
(*               holds ("before", "after": a tick sent before or after     *)
(*               Stop closed stopChan)                                     *)
(*   hc.probes   the goroutines of the round in progress                   *)
(*   hc.life     per address, what happened to it last: added, probed      *)
(*               (with the status and lateness of the response), removed   *)
(*   hc.since    whether UpdateInterval was called, and whether the ticker *)
(*               has ticked once or more often since                       *)
(*   hc.cfg      the configuration in force, hc.reload the watcher         *)
(*               callback in progress, hc.reloads the callbacks finished   *)
(*   hc.bal      the balancer of the service                               *)
(*   hc.pick     the last answer of NextServer                             *)
(* Durations are small numbers of one unit.                                *)
(***************************************************************************)
MaxHealthReloads == 1

HCAddrs == {"a", "b"}

Intervals == {2, 4}

Timeouts == {1, 3}

\* what a backend answers to GET /health, and after how long: 200 at once,
\* 500 at once, 200 after a while
Responses ==
    {[status |-> 200, latency |-> 0], [status |-> 500, latency |-> 0],
     [status |-> 200, latency |-> 2]}

\* the configurations: one round-robin service, timeout < interval
HealthFiles ==
    [h1 |-> [Service |-> ServiceConfig("S", "round_robin", <<Server("a", 0)>>),
             HealthCheck |-> [Interval |-> 2, Timeout |-> 1]],
     h2 |-> [Service |-> ServiceConfig("S", "round_robin",
                                       <<Server("a", 0), Server("b", 0)>>),
             HealthCheck |-> [Interval |-> 4, Timeout |-> 3]],
     h3 |-> [Service |-> ServiceConfig("S", "round_robin", <<Server("b", 0)>>),
             HealthCheck |-> [Interval |-> 4, Timeout |-> 1]]]

HealthFileIds == DOMAIN HealthFiles

NewHealthChecker(interval, timeout) ==
    [servers |-> [a \in HCAddrs |-> "absent"], interval |-> interval,
     timeout |-> timeout, stopChan |-> "open"]

AddServer(h, address) == [h EXCEPT !.servers[address] = "healthy"]

RemoveServer(h, server) == [h EXCEPT !.servers[server] = "absent"]

IsHealthy(h, server) == h.servers[server] = "healthy"

\* UpdateServerStatus that stores the verdict whether or not the map has the
\* address
UpdateServerStatusAlways(h, server, healthy) ==
    [h EXCEPT !.servers[server] = IF healthy THEN "healthy" ELSE "unhealthy"]

UpdateServerStatus(h, server, healthy) ==
    IF h.servers[server] # "absent"
    THEN [h EXCEPT !.servers[server] = IF healthy THEN "healthy" ELSE "unhealthy"]
    ELSE h

UpdateInterval(h, interval) == [h EXCEPT !.interval = interval]

UpdateTimeout(h, timeout) == [h EXCEPT !.timeout = timeout]

\* httpCheck that accepts every status
httpCheckAnyStatus(status, latency, deadline) == latency <= deadline

\* httpCheck under a context with the deadline: err == nil
httpCheck(status, latency, deadline) ==
    /\ latency <= deadline
    /\ status = 200

NoProbe == [phase |-> "none", deadline |-> 0]

NoLife == [kind |-> "never", status |-> 0, late |-> FALSE, readded |-> FALSE,
           lateDone |-> FALSE]

\* the loop of the main program over the servers of the configuration
RECURSIVE AddServers(_, _, _)
AddServers(h, servers, i) ==
    IF i > Len(servers) THEN h
    ELSE AddServers(AddServer(h, servers[i].Address), servers, i + 1)

\* the main program up to go healthChecker.Start()
HealthStarted(id) ==
    [h |-> AddServers(NewHealthChecker(HealthFiles[id].HealthCheck.Interval,
                                       HealthFiles[id].HealthCheck.Timeout),
                      HealthFiles[id].Service.Servers, 1),
     loop |-> "new",
     ticker |-> [period |-> 0, C |-> "empty"],
     probes |-> [a \in HCAddrs |-> NoProbe],
     life |-> [a \in HCAddrs |->
                  IF a \in Declared(HealthFiles[id].Service)
                  THEN [NoLife EXCEPT !.kind = "fresh"] ELSE NoLife],
     since |-> "none",
     cfg |-> id,
     reload |-> [pc |-> "idle", cfg |-> ""],
     reloads |-> 0,
     bal |-> newBalancer(HealthFiles[id].Service),
     pick |-> ""]

HCInit ==
    /\ \E id \in {"h1", "h2"} : hc = HealthStarted(id)
    /\ cw = NoWatch
    /\ sp = NoSplit
    /\ px = NoProxy
    /\ rt = NoRoutes
    /\ GatewayStarted("rr_ab")
    /\ bal = NewRoundRobinBalancer
    /\ hist = <<>>
    /\ start = [index |-> 0, current |-> 0]
    /\ twin = NoTwin
    /\ twinHist = <<>>
    /\ tracking = FALSE
    /\ dirty = FALSE
    /\ wrapped = FALSE

\* checkAllServers up to wg.Wait(): one goroutine per server of the map
RoundStarted ==
    [hc EXCEPT !.loop = "round",
               !.probes = [a \in HCAddrs |->
                              IF hc.h.servers[a] # "absent"
                              THEN [NoProbe EXCEPT !.phase = "spawned"]
                              ELSE NoProbe]]

\* the ticker has ticked, one period after its last tick
Ticked(s) ==
    [s EXCEPT !.since = CASE s.since = "updated" -> "once"
                          [] s.since = "once" -> "more"
                          [] OTHER -> s.since]

\* Start: the ticker is made with the interval of this moment
HCStart ==
    /\ hc.loop = "new"
    /\ hc' = [hc EXCEPT !.loop = "select",
                        !.ticker = [period |-> hc.h.interval, C |-> "empty"]]

\* the ticker sends on its channel of capacity one; a goroutine blocked in
\* the select receives at once and begins the round
HCTick ==
    /\ hc.loop \in {"select", "blocked", "round"}
    /\ LET tick == IF hc.h.stopChan = "closed" THEN "after" ELSE "before"
       IN  hc' = IF hc.loop = "blocked"
                 THEN Ticked(RoundStarted)
                 ELSE IF hc.ticker.C = "empty"
                      THEN Ticked([hc EXCEPT !.ticker.C = tick])
                      ELSE Ticked(hc)

\* the select of Start: with no case ready the goroutine blocks; with both
\* ready either is taken
HCSelect ==
    /\ hc.loop = "select"
    /\ \/ /\ hc.ticker.C = "empty"
          /\ hc.h.stopChan = "open"
          /\ hc' = [hc EXCEPT !.loop = "blocked"]
       \/ /\ hc.ticker.C # "empty"
          /\ hc' = [RoundStarted EXCEPT !.ticker.C = "empty"]
       \/ /\ hc.h.stopChan = "closed"
          /\ hc' = [hc EXCEPT !.loop = "exited"]

\* Stop: close(h.stopChan); a goroutine blocked in the select returns
HCStop ==
    /\ hc.h.stopChan = "open"
    /\ hc' = [hc EXCEPT !.h.stopChan = "closed",
                        !.loop = IF hc.loop = "blocked" THEN "exited" ELSE @]

\* a goroutine of the round makes its context with the timeout of this moment
HCProbeBegin ==
    \E a \in HCAddrs :
        /\ hc.probes[a].phase = "spawned"
        /\ hc' = [hc EXCEPT !.probes[a] = [phase |-> "running",
                                           deadline |-> hc.h.timeout]]

\* the probe returns and its goroutine stores the verdict
HCProbeEnd ==
    \E a \in HCAddrs, resp \in Responses :
        /\ hc.probes[a].phase = "running"
        /\ hc' = [hc EXCEPT
                     !.h = UpdateServerStatus(
                               hc.h, a,
                               httpCheck(resp.status, resp.latency,
                                         hc.probes[a].deadline)),
                     !.probes[a] = NoProbe,
                     !.life[a] =
                         IF hc.life[a].kind = "removed"
                         THEN [@ EXCEPT !.lateDone = TRUE]
                         ELSE IF hc.life[a].kind = "never" THEN @
                         ELSE [NoLife EXCEPT
                                  !.kind = "probed",
                                  !.status = resp.status,
                                  !.late = resp.latency > hc.probes[a].deadline]]

\* wg.Wait() returns
HCRoundEnd ==
    /\ hc.loop = "round"
    /\ \A a \in HCAddrs : hc.probes[a].phase = "none"
    /\ hc' = [hc EXCEPT !.loop = "select"]

\* a caller of AddServer
HCAddServer ==
    \E a \in HCAddrs :
        hc' = [hc EXCEPT !.h = AddServer(hc.h, a),
                         !.life[a] = IF hc.life[a].kind = "probed"
                                     THEN [@ EXCEPT !.readded = TRUE]
                                     ELSE [NoLife EXCEPT !.kind = "fresh"]]

\* a caller of RemoveServer
HCRemoveServer ==
    \E a \in HCAddrs :
        hc' = [hc EXCEPT !.h = RemoveServer(hc.h, a),
                         !.life[a] = [NoLife EXCEPT !.kind = "removed"]]

\* the watcher callback of the main program: router.Update
HCReload ==
    /\ hc.reload.pc = "idle"
    /\ hc.reloads < MaxHealthReloads
    /\ \E id \in HealthFileIds :
           hc' = [hc EXCEPT
                     !.reload = [pc |-> "interval", cfg |-> id],
                     !.bal = BalancerUpdateServers(
                                 hc.bal, HealthFiles[id].Service.Servers)]

\* the callback: healthChecker.UpdateInterval
HCReloadInterval ==
    /\ hc.reload.pc = "interval"
    /\ hc' = [hc EXCEPT
                 !.h = UpdateInterval(
                           hc.h, HealthFiles[hc.reload.cfg].HealthCheck.Interval),
                 !.since = "updated",
                 !.reload.pc = "timeout"]

\* the callback: healthChecker.UpdateTimeout, and the callback returns
HCReloadTimeout ==
    /\ hc.reload.pc = "timeout"
    /\ hc' = [hc EXCEPT
                 !.h = UpdateTimeout(
                           hc.h, HealthFiles[hc.reload.cfg].HealthCheck.Timeout),
                 !.cfg = hc.reload.cfg,
                 !.reload = [pc |-> "idle", cfg |-> ""],
                 !.reloads = @ + 1]

\* a request: Service.NextServer
HCNextServer ==
    LET r == BalancerNext(hc.bal)
    IN  hc' = [hc EXCEPT
                  !.bal = r.b,
                  !.pick = IF r.out = "ok" THEN r.server ELSE ""]

NextHC ==
    \/ HCStart /\ UNCHANGED <<balVars, gwVars, px, rt, cw, sp>>
    \/ HCTick /\ UNCHANGED <<balVars, gwVars, px, rt, cw, sp>>
    \/ HCSelect /\ UNCHANGED <<balVars, gwVars, px, rt, cw, sp>>
    \/ HCStop /\ UNCHANGED <<balVars, gwVars, px, rt, cw, sp>>
    \/ HCProbeBegin /\ UNCHANGED <<balVars, gwVars, px, rt, cw, sp>>
    \/ HCProbeEnd /\ UNCHANGED <<balVars, gwVars, px, rt, cw, sp>>
    \/ HCRoundEnd /\ UNCHANGED <<balVars, gwVars, px, rt, cw, sp>>
    \/ HCAddServer /\ UNCHANGED <<balVars, gwVars, px, rt, cw, sp>>
    \/ HCRemoveServer /\ UNCHANGED <<balVars, gwVars, px, rt, cw, sp>>
    \/ HCReload /\ UNCHANGED <<balVars, gwVars, px, rt, cw, sp>>
    \/ HCReloadInterval /\ UNCHANGED <<balVars, gwVars, px, rt, cw, sp>>
    \/ HCReloadTimeout /\ UNCHANGED <<balVars, gwVars, px, rt, cw, sp>>
    \/ HCNextServer /\ UNCHANGED <<balVars, gwVars, px, rt, cw, sp>>

SpecHC == HCInit /\ [][NextHC]_vars

---------------------------------------------------------------------------
(***************************************************************************)
(* The HealthChecker laws, checked under SpecHC.                           *)
(***************************************************************************)

\* the addresses in the map of the HealthChecker
Registered(h) == {a \in HCAddrs : h.servers[a] # "absent"}

\* the response came before the deadline of its probe, with status 200
OnTimeAnd200(l) == ~l.late /\ l.status = 200

\* C21 as stated: for a registered address, from the completion of a probe
\* of it until the completion of the next, IsHealthy(address) is true if and
\* only if the response of that probe came before the deadline with status
\* 200.
C21_VerdictOfLastProbe ==
    \A a \in HCAddrs :
        hc.life[a].kind = "probed" =>
            (IsHealthy(hc.h, a) <=> OnTimeAnd200(hc.life[a]))

\* C21, amended: the same, until the completion of the next probe or the
\* next AddServer of the address, which makes it healthy again at once.
C21_VerdictOfLastProbeUntilAdd ==
    \A a \in HCAddrs :
        hc.life[a].kind = "probed" /\ ~hc.life[a].readded =>
            (IsHealthy(hc.h, a) <=> OnTimeAnd200(hc.life[a]))

\* a probe whose 200 came after the deadline has completed, and the address
\* is not healthy
C21_Witness ==
    \E a \in HCAddrs :
        /\ hc.life[a].kind = "probed"
        /\ ~hc.life[a].readded
        /\ hc.life[a].late
        /\ hc.life[a].status = 200
        /\ ~IsHealthy(hc.h, a)

\* C22: Service.NextServer does not return a backend whose verdict is
\* unhealthy while the service has a healthy backend.
C22_UnhealthyExcluded ==
    [][(/\ hc' # hc
        /\ hc' = [hc EXCEPT !.bal = hc'.bal, !.pick = hc'.pick]
        /\ hc'.pick # "")
       => ~(/\ hc.h.servers[hc'.pick] = "unhealthy"
            /\ \E b \in BackendSet(hc.bal) : IsHealthy(hc.h, b))]_vars

\* C23: once UpdateInterval has been called on a running loop, the ticks
\* after the next one are spaced by the new interval, and every probe begun
\* takes the timeout the HealthChecker has at that moment.
C23_UpdateTakesEffect ==
    /\ [](hc.loop \in {"select", "blocked", "round"} /\ hc.since = "more"
            => hc.ticker.period = hc.h.interval)
    /\ [][\A a \in HCAddrs :
              hc.probes[a].phase = "spawned" /\ hc'.probes[a].phase = "running"
                  => hc'.probes[a].deadline = hc.h.timeout]_vars

\* C24: after Stop the loop returns at the next tick at the latest: no round
\* is started by a tick that the ticker sent after Stop.
C24_NoRoundAfterStop ==
    [][hc.loop = "select" /\ hc'.loop = "round" => hc.ticker.C # "after"]_vars

\* C25: after RemoveServer(address) the address is absent from the map and
\* IsHealthy(address) is false, also when a probe of the address that was in
\* flight completes afterwards.
C25_RemoveIsFinal ==
    \A a \in HCAddrs :
        hc.life[a].kind = "removed" =>
            /\ a \notin Registered(hc.h)
            /\ ~IsHealthy(hc.h, a)

\* a probe of a removed address has completed after the removal
C25_Witness ==
    \E a \in HCAddrs :
        /\ hc.life[a].kind = "removed"
        /\ hc.life[a].lateDone

\* C29: when the callback of a reload returns, the addresses in the map of
\* the HealthChecker are the backend addresses the new snapshot declares.
C29_ReloadSyncsAddresses ==
    [][hc.reload.pc = "timeout" /\ hc'.reload.pc = "idle"
         => Registered(hc'.h) = Declared(HealthFiles[hc'.cfg].Service)]_vars

---------------------------------------------------------------------------
(***************************************************************************)
(* SpecWatch: the ConfigWatcher of the main program, the file it polls     *)
(* and what its callback has applied.                                      *)
(*   cw.file     the file: its mtime, its content (a key of Files) and     *)
(*               whether it can be read ("ok"), only be found              *)
(*               ("unreadable") or not be found ("missing")                *)
(*   cw.lastMod  the mtime the watcher recorded last (0: none yet)         *)
(*   cw.pc       where checkForUpdate stands: between two polls, before    *)
(*               Validate, before LoadFromFile                             *)
(*   cw.running  what the callback applied last: the configuration of the  *)
(*               Router and its Services, the interval and timeout of the  *)
(*               HealthChecker, the log level                              *)
(*   cw.calls    the number of callback invocations                        *)
(*   cw.before   running and calls when the poll in progress, or the last  *)
(*               one, found a later mtime                                  *)
(*   cw.seen     what the read of Validate found in that poll              *)
(*   cw.first    that poll was the first observation of the file: the      *)
(*               watcher had recorded no mtime before                      *)
(*   cw.outcome  how the last poll ended                                   *)
(***************************************************************************)
MaxWrites == 2

WatchContents == {"rr_ab", "rr_bc", "empty"}

\* the configuration a callback of the main program puts in force
Callback(id) ==
    [router |-> id,
     interval |-> Files[id].HealthCheck.Interval,
     timeout |-> Files[id].HealthCheck.Timeout,
     level |-> Files[id].LogLevel]

NoSeen == [content |-> "", mode |-> ""]

\* the main program has loaded the file and started the watcher
WatchStarted(id) ==
    [file |-> [mtime |-> 1, content |-> id, mode |-> "ok"],
     lastMod |-> 0,
     pc |-> "sleep",
     running |-> Callback(id),
     calls |-> 0,
     before |-> [running |-> Callback(id), calls |-> 0],
     seen |-> NoSeen,
     first |-> FALSE,
     outcome |-> "none"]

WatchInit ==
    /\ \E id \in {c \in WatchContents : Validate(Files[c])} :
           cw = WatchStarted(id)
    /\ sp = NoSplit
    /\ hc = NoHealth
    /\ px = NoProxy
    /\ rt = NoRoutes
    /\ GatewayStarted("rr_ab")
    /\ bal = NewRoundRobinBalancer
    /\ hist = <<>>
    /\ start = [index |-> 0, current |-> 0]
    /\ twin = NoTwin
    /\ twinHist = <<>>
    /\ tracking = FALSE
    /\ dirty = FALSE
    /\ wrapped = FALSE

\* somebody rewrites the file
WatchWrite ==
    /\ cw.file.mtime <= MaxWrites
    /\ \E id \in WatchContents, mode \in {"ok", "unreadable"} :
           cw' = [cw EXCEPT !.file = [mtime |-> cw.file.mtime + 1,
                                      content |-> id, mode |-> mode]]

\* somebody changes the permissions of the file; its mtime stays
WatchChmod ==
    /\ cw.file.mode \in {"ok", "unreadable"}
    /\ cw' = [cw EXCEPT !.file.mode = IF @ = "ok" THEN "unreadable" ELSE "ok"]

\* somebody removes the file
WatchRemove ==
    /\ cw.file.mode # "missing"
    /\ cw' = [cw EXCEPT !.file.mode = "missing"]

\* checkForUpdate: os.Stat, the comparison of the mtime, cw.lastMod = ...
WatchStat ==
    /\ cw.pc = "sleep"
    /\ cw' = IF cw.file.mode = "missing"
             THEN [cw EXCEPT !.outcome = "nostat"]
             ELSE IF cw.file.mtime > cw.lastMod
                  THEN [cw EXCEPT !.lastMod = cw.file.mtime,
                                  !.pc = "validate",
                                  !.before = [running |-> cw.running,
                                              calls |-> cw.calls],
                                  !.seen = NoSeen,
                                  !.first = (cw.lastMod = 0),
                                  !.outcome = "polling"]
                  ELSE [cw EXCEPT !.outcome = "same"]

\* checkForUpdate: Validate(cw.filePath), which reads the file
WatchValidate ==
    /\ cw.pc = "validate"
    /\ cw' = IF cw.file.mode # "ok"
             THEN [cw EXCEPT !.pc = "sleep", !.outcome = "unreadable",
                             !.seen = [content |-> "", mode |-> cw.file.mode]]
             ELSE IF ~Validate(Files[cw.file.content])
                  THEN [cw EXCEPT !.pc = "sleep", !.outcome = "rejected",
                                  !.seen = [content |-> cw.file.content,
                                            mode |-> "ok"]]
                  ELSE [cw EXCEPT !.pc = "load",
                                  !.seen = [content |-> cw.file.content,
                                            mode |-> "ok"]]

\* checkForUpdate: cfg.LoadFromFile(cw.filePath), which reads the file
\* again, and the loop over the callbacks
WatchLoad ==
    /\ cw.pc = "load"
    /\ cw' = IF cw.file.mode # "ok"
             THEN [cw EXCEPT !.pc = "sleep", !.outcome = "noload"]
             ELSE [cw EXCEPT !.pc = "sleep", !.outcome = "applied",
                             !.running = Callback(cw.file.content),
                             !.calls = @ + 1]

NextWatch ==
    \/ WatchWrite /\ UNCHANGED <<balVars, gwVars, px, rt, hc, sp>>
    \/ WatchChmod /\ UNCHANGED <<balVars, gwVars, px, rt, hc, sp>>
    \/ WatchRemove /\ UNCHANGED <<balVars, gwVars, px, rt, hc, sp>>
    \/ WatchStat /\ UNCHANGED <<balVars, gwVars, px, rt, hc, sp>>
    \/ WatchValidate /\ UNCHANGED <<balVars, gwVars, px, rt, hc, sp>>
    \/ WatchLoad /\ UNCHANGED <<balVars, gwVars, px, rt, hc, sp>>

SpecWatch == WatchInit /\ [][NextWatch]_vars

\* the goroutine of Start runs checkForUpdate every second, for ever: each
\* of its steps is taken in the end
SpecWatchLive ==
    /\ WatchInit
    /\ [][NextWatch]_vars
    /\ WF_vars(WatchStat /\ UNCHANGED <<balVars, gwVars, px, rt, hc, sp>>)
    /\ WF_vars(WatchValidate /\ UNCHANGED <<balVars, gwVars, px, rt, hc, sp>>)
    /\ WF_vars(WatchLoad /\ UNCHANGED <<balVars, gwVars, px, rt, hc, sp>>)

\* C27: when the read of Validate fails, when the file it reads breaks a
\* validation rule, or when the read of LoadFromFile fails, no callback is
\* invoked and what is in force after the poll is what was in force before.
C27_LastGoodStays ==
    /\ cw.pc = "sleep"
    /\ \/ cw.seen.mode \in {"unreadable", "missing"}
       \/ cw.seen.content = "empty"
       \/ cw.outcome = "noload"
    => /\ cw.running = cw.before.running
       /\ cw.calls = cw.before.calls

\* a poll has recorded the mtime of a file without servers, and has left
\* the configuration in force alone
C27_Witness ==
    /\ cw.pc = "sleep"
    /\ cw.outcome = "rejected"
    /\ cw.seen = [content |-> "empty", mode |-> "ok"]
    /\ cw.lastMod = cw.file.mtime
    /\ cw.lastMod > 1
    /\ cw.running.router # "empty"

\* C28: a modification that leaves the file valid with a later mtime is
\* applied in the end: when the file stays valid and readable with one
\* content, the callback puts that content in force.
C28_EventuallyApplied ==
    \A id \in {"rr_ab", "rr_bc"} :
        <>[](cw.file.content = id /\ cw.file.mode = "ok")
            => <>[](cw.running.router = id)

\* C33: the first observation of the file only records its mtime: the poll
\* that finds no mtime recorded invokes no callback.
C33_FirstObservationSilent ==
    ~(cw.first /\ cw.outcome = "applied")

\* C37: every snapshot handed to the callbacks satisfies the validation
\* rules, also when the file is rewritten between the read of Validate and
\* the read of LoadFromFile: the configuration in force is never the one
\* without servers.
C37_AppliedIsValid ==
    cw.running.router # "empty"

\* C32: at every instant, also between the two calls of a reload callback
\* that changes both, the timeout of the HealthChecker is less than its
\* interval.
C32_TimeoutBelowInterval ==
    hc.h.timeout < hc.h.interval

---------------------------------------------------------------------------
(***************************************************************************)
(* The generator of the split draws, checked under Spec.                   *)
(***************************************************************************)

\* request w is in Router.Match between the return of search and the return
\* of selectServiceBySplit, on a route whose split makes it call rng.Intn
Drawing(w) ==
    /\ reqs[w].pc \in {"t_pick", "h_pick"}
    /\ Len(reqs[w].ri[1].split) > 1
    /\ splitTotal(reqs[w].ri[1].split, Len(reqs[w].ri[1].split)) > 0

\* C35: the generator is used under a lock: no two calls of Match are at
\* their draw at the same time.
C35_DrawsExclusive ==
    \A v, w \in Workers : Drawing(v) /\ Drawing(w) => v = w


\* C31: a Next issued through a Service during a reload sees the balancer
\* entirely before or entirely after the update: the balancer value on which
\* NextServer calls Next is never a mix of the old and the new one.
C31_NeverTorn ==
    \A w \in Workers : reqs[w].pc = "h_call" => Whole(reqs[w].view)

---------------------------------------------------------------------------
(***************************************************************************)
(* The weighted cursor and the rotation under Remove, checked under        *)
(* SpecBal.                                                                *)
(***************************************************************************)

\* C39: after any sequence of operations on a weighted round-robin balancer
\* the inner counter counts selections of the backend at the cursor only: it
\* lies between 0 and the weight of that backend.
C39_CounterWithinWeight ==
    bal.type = "weighted_round_robin" /\ bal.index < Len(bal.servers)
        => /\ 0 <= bal.current
           /\ bal.current <= bal.servers[bal.index + 1].Weight


\* C38: Next of a weighted round-robin balancer terminates on every list
\* that Add, AddWithWeight, UpdateServers and Remove can build: every stored
\* weight is at least 1, and no call of Next ran its loop without returning.
C38_NextTerminates ==
    bal.type = "weighted_round_robin"
        => /\ \A i \in 1 .. Len(bal.servers) : bal.servers[i].Weight >= 1
           /\ \A k \in 1 .. Len(hist) : hist[k].out # "hang"

\* a Next of a weighted balancer of several backends has returned after its
\* loop moved the cursor on from the backend of the call before
C38_Witness ==
    /\ bal.type = "weighted_round_robin"
    /\ Len(bal.servers) >= 2
    /\ Len(hist) >= 2
    /\ hist[Len(hist)].out = "ok"
    /\ hist[Len(hist)].idx # hist[Len(hist) - 1].idx


\* C40: Remove on a round-robin balancer of distinct backends leaves the
\* rotation of the remaining ones alone: the backend the next Next returns is
\* the one that was due before the removal, or, when that one was removed,
\* its successor in list order.
C40_RemoveKeepsRotation ==
    [][(/\ bal.type = "round_robin"
        /\ ~tracking'
        /\ Len(bal'.servers) = Len(bal.servers) - 1
        /\ Len(bal'.servers) > 0
        /\ bal.index < Len(bal.servers)
        /\ \A i, j \in 1 .. Len(bal.servers) :
               i # j => bal.servers[i] # bal.servers[j])
          => LET due == bal.servers[bal.index + 1]
                 successor ==
                     bal.servers[((bal.index + 1) % Len(bal.servers)) + 1]
                 kept == \E i \in 1 .. Len(bal'.servers) :
                             bal'.servers[i] = due
             IN  /\ bal'.index < Len(bal'.servers)
                 /\ bal'.servers[bal'.index + 1] =
                        IF kept THEN due ELSE successor]_vars

---------------------------------------------------------------------------
(***************************************************************************)
(* The catch-all route, checked under SpecRoute.                           *)
(***************************************************************************)

\* the tokens of a pattern before its first wildcard segment
LiteralHead(pattern) ==
    IF IsLiteral(pattern) THEN pattern
    ELSE SubSeq(pattern, 1,
                (CHOOSE k \in 1 .. Len(pattern) :
                     /\ pattern[k] \in {"*", "**"}
                     /\ \A j \in 1 .. k - 1 : pattern[j] \notin {"*", "**"}) - 1)

\* C36: the search returns a route only if the request path lies under the
\* literal prefix of the pattern of that route, also when the list holds the
\* catch-all route * next to other wildcard routes.
C36_OnlyCoveringRoute ==
    (rt.calls = 1 /\ rt.found # <<>>)
        => \E k \in RouteIds :
               /\ rt.found[1].service = rt.routes[k].Service
               /\ HasPrefix(rt.req.Path, LiteralHead(rt.routes[k].Match.Path))

---------------------------------------------------------------------------
(***************************************************************************)
(* SpecSplit: selectServiceBySplit applied to one split list (route.go).   *)
(* The weights are the non-negative ones; draw is the number rng.Intn      *)
(* returned, -1 when the function returned without calling it.             *)
(***************************************************************************)
MaxSplit == 3          \* entries in one split list
MaxSplitWeight == 2    \* largest weight of a split entry

SplitServices == {"S", "T", "U"}

SplitEntries == [Weight : 0 .. MaxSplitWeight, Service : SplitServices]

SplitLists == UNION {[1 .. n -> SplitEntries] : n \in 1 .. MaxSplit}

\* what rng.Intn(totalWeight) can return in selectServiceBySplit: every
\* number of [0, totalWeight); the call is not reached for a single entry or
\* a zero total
rngIntn(split) ==
    IF Len(split) = 1 \/ splitTotal(split, Len(split)) = 0 THEN {-1}
    ELSE 0 .. splitTotal(split, Len(split)) - 1

SplitInit ==
    /\ \E split \in SplitLists : sp = [NoSplit EXCEPT !.split = split]
    /\ cw = NoWatch
    /\ hc = NoHealth
    /\ px = NoProxy
    /\ rt = NoRoutes
    /\ GatewayStarted("rr_ab")
    /\ bal = NewRoundRobinBalancer
    /\ hist = <<>>
    /\ start = [index |-> 0, current |-> 0]
    /\ twin = NoTwin
    /\ twinHist = <<>>
    /\ tracking = FALSE
    /\ dirty = FALSE
    /\ wrapped = FALSE

\* Router.selectServiceBySplit(routeInfo)
SplitSelect ==
    \E randomWeight \in rngIntn(sp.split) :
        sp' = [sp EXCEPT !.draw = randomWeight,
                         !.name = selectServiceBySplit(sp.split, randomWeight),
                         !.calls = 1]

NextSplit ==
    \/ SplitSelect /\ UNCHANGED <<balVars, gwVars, px, rt, hc, cw>>

SpecSplit == SplitInit /\ [][NextSplit]_vars

\* the numbers of [0, total) for which entry i of the split is selected
DrawsFor(split, i) ==
    {d \in 0 .. splitTotal(split, Len(split)) - 1 :
         selectServiceBySplit(split, d) = split[i].Service}

\* C34: for a split of several entries with total weight T > 0 the number d
\* drawn from [0, T) selects the first entry whose cumulative weight exceeds
\* d, so that an entry is selected for exactly its weight of the T numbers
\* (entries naming different services); a split of one entry yields the
\* service of that entry and no number is drawn.
C34_SplitByWeight ==
    sp.calls = 1 =>
        LET split == sp.split
            T == splitTotal(split, Len(split))
        IN  /\ Len(split) = 1
                => sp.draw = -1 /\ sp.name = split[1].Service
            /\ Len(split) > 1 /\ T > 0
                => /\ sp.draw \in 0 .. T - 1
                   /\ \E i \in 1 .. Len(split) :
                          /\ sp.name = split[i].Service
                          /\ splitTotal(split, i) > sp.draw
                          /\ \A j \in 1 .. i - 1 : splitTotal(split, j) <= sp.draw
                   /\ (\A i, j \in 1 .. Len(split) :
                           i # j => split[i].Service # split[j].Service)
                        => \A i \in 1 .. Len(split) :
                               Cardinality(DrawsFor(split, i)) = split[i].Weight

\* a split of three services of different weights, the last one selected by
\* the greatest number of the range
C34_Witness ==
    /\ sp.calls = 1
    /\ Len(sp.split) = 3
    /\ sp.split[1].Weight = 2 /\ sp.split[2].Weight = 1 /\ sp.split[3].Weight = 2
    /\ \A i, j \in 1 .. 3 : i # j => sp.split[i].Service # sp.split[j].Service
    /\ sp.draw = 4
    /\ sp.name = sp.split[3].Service

====
